---- MODULE Spec2Model ----
(***************************************************************************)
(* Japanese-to-phoneme converter: the runtime matcher (jpn_to_phoneme.py)  *)
(* and the dictionary builder (fix_and_align_phonemes.py).                 *)
(*                                                                         *)
(* A Python str is a sequence of code points.  A code point is written as  *)
(* a one-element string: an ASCII character as itself ("a", " ", "["),     *)
(* any other character as "U+XXXX" (its Unicode code point in hex).        *)
(* Python's None is the empty tuple << >> and a present value v is <<v>>,  *)
(* so that "is not None" is a test on the length.                          *)
(***************************************************************************)
EXTENDS Integers, Sequences, FiniteSets, TLC

VARIABLES
    root,         \* PhonemeConverter.root: the trie, node path -> phoneme
    entry_count,  \* PhonemeConverter.entry_count
    seg_root,     \* WordSegmenter.root
    word_count,   \* WordSegmenter.word_count
    pc,           \* where the running call stands ("load", "idle", or a loop)
    text,         \* the argument of the running call
    pos,          \* the cursor of the running loop (0-based, as in the code)
    result,       \* the list the running loop appends to
    current_text, \* parse_furigana_hints: the text collected since the last pair
    items,        \* the list the running for-loop goes over (words, segments)
    all_matches,  \* convert_detailed_with_segmentation: all_matches
    all_unmatched,\* convert_detailed_with_segmentation: all_unmatched
    byte_offset,  \* convert_detailed_with_segmentation: byte_offset
    ret,          \* what the last finished call returned
    entries_batch,           \* process_verb_batch: its argument
    batch_pos,               \* process_verb_batch: entries handled so far
    batch_conjugations,      \* process_verb_batch: batch_conjugations
    batch_conjugated_words,  \* process_verb_batch: batch_conjugated_words
    batch_verb_count,        \* process_verb_batch: batch_verb_count
    batch_pc,                \* where the worker of process_verb_batch is
    phoneme_dict, \* build_binary_trie: the dictionary it was given
    word_set,     \* build_binary_trie: the word set it was given
    file,         \* the bytes of the .trie file, None while there is none
    fpos,         \* try_load_binary_format: the read position in the file
    to_read,      \* try_load_binary_format: entries the loop has yet to read
    data,               \* main of the builder: the dictionary, word -> phoneme
    all_entries,        \* main: list(data.items()) before the pass
    batches,            \* main: the batches handed to the pool
    pending,            \* the batches whose result the pool has yet to yield
    verb_count,         \* main: verb_count
    conjugated_words,   \* main: conjugated_words
    conjugation_count,  \* main: conjugation_count
    skipped_count,      \* main: skipped_count
    completed_batches,  \* main: completed_batches
    num_workers,        \* main: num_workers
    main_pc,            \* where main of the builder stands
    words_source,       \* the file original_ja_words.txt: its lines, or None
    removed_punct,      \* main: removed_punct
    converted_count,    \* main: converted_count
    running,      \* the caller whose call the locals above belong to
    waiting       \* the locals of the other callers' calls, caller -> its locals

\* the converter, the segmenter, and the frame of the running call
conv == <<root, entry_count>>
segm == <<seg_root, word_count>>
call == <<pc, text, pos, result, current_text, ret>>

\* the locals of convert_with_segmentation / convert_detailed_with_segmentation
pipe == <<items, all_matches, all_unmatched, byte_offset>>

\* the worker of the builder's conjugation pass
batch == <<entries_batch, batch_pos, batch_conjugations,
           batch_conjugated_words, batch_verb_count, batch_pc>>

\* the dictionary file and its writer's and reader's locals
disk == <<phoneme_dict, word_set, file, fpos, to_read>>

\* the locals of the builder's main during the conjugation pass
merge == <<data, all_entries, batches, pending, verb_count, conjugated_words,
           conjugation_count, skipped_count, completed_batches, num_workers,
           main_pc>>

\* the word file and the counters of main's steps after the pass
steps == <<words_source, removed_punct, converted_count>>

\* the callers of the loaded converter and segmenter
callers == <<running, waiting>>

vars == <<conv, segm, call, pipe, batch, disk, merge, steps, callers>>

----------------------------------------------------------------------------
(* Bounds of the model *)

MaxEntries == 2     \* dictionary entries loaded into the converter
MaxKeyLen == 2      \* code points in a dictionary key
MaxTextLen == 3     \* code points in an input text
MaxWords == 2       \* lines read from the word file
MaxLineLen == 3     \* code points in a line of the word file
MaxHintTextLen == 5 \* code points in an input of parse_furigana_hints
MaxBatch == 2        \* entries in a batch of process_verb_batch
MaxPipeTextLen == 5 \* code points in an input of the segmenting pipeline
MaxDictEntries == 3 \* entries of the dictionary the builder's main expands
MaxQueryTextLen == 3 \* code points in an input of the runtime's queries
MaxTrieEntries == 2 \* entries of a dictionary whose whole artifact is read back
MaxFileEntries == 3 \* entries of a dictionary file that repeats keys
MaxPhonemeLen == 3  \* code points of a phoneme value given to convert_to_ligatures
MaxWorkers == 2     \* worker processes of the builder's pool
MaxCallers == 2     \* callers of the loaded converter whose calls interleave
MaxCallerTextLen == 2 \* code points in an input of an interleaved call

(* Code points of the inputs *)
\* dictionary keys and converter inputs are made of a letter and a space;
\* segmenter inputs also hold a letter that no dictionary word holds
Alphabet == {"a", " "}
SegAlphabet == Alphabet \cup {"b"}
Phonemes == {<< >>, <<"x", "y">>}   \* "", "xy"

SeqsUpTo(S, n) == UNION {[1..k -> S] : k \in 0..n}
Keys == SeqsUpTo(Alphabet, MaxKeyLen) \ {<< >>}
Texts == SeqsUpTo(Alphabet, MaxTextLen)
\* lines of the word file also hold U+3000, the ideographic space
LineAlphabet == Alphabet \cup {"U+3000"}
Lines == SeqsUpTo(LineAlphabet, MaxLineLen)
SegTexts == SeqsUpTo(SegAlphabet, MaxTextLen)

\* inputs of parse_furigana_hints: a letter, [ ], and U+300C U+300D (the
\* corner brackets)
HintAlphabet == {"a", "[", "]", "U+300C", "U+300D"}
HintTexts == SeqsUpTo(HintAlphabet, MaxHintTextLen)

\* inputs of the segmenting pipeline: a letter, a space and a bracket pair;
\* its dictionary keys are runs of the letter
PipeAlphabet == {"a", " ", "[", "]"}
PipeKeys == SeqsUpTo({"a"}, MaxKeyLen) \ {<< >>}
PipeTexts == SeqsUpTo(PipeAlphabet, MaxPipeTextLen)
QueryKeys == {<<"a">>, <<"a", "a">>}
QueryTexts == SeqsUpTo(PipeAlphabet, MaxQueryTextLen)

\* the callers that share the loaded tries, and the inputs they pass
Callers == 1..MaxCallers
CallerTexts == SeqsUpTo(Alphabet, MaxCallerTextLen)

----------------------------------------------------------------------------
(* Python helpers *)

\* the caller holds no returned value (before a call, and while one runs)
NoReturn == [op |-> "none"]

None == << >>
Some(v) == <<v>>

\* s[a:b] for 0 <= a, with b clipped to len(s)
Slice(s, a, b) ==
    LET e == IF b > Len(s) THEN Len(s) ELSE b
    IN  IF a >= e THEN << >> ELSE SubSeq(s, a + 1, e)

RECURSIVE Join(_, _)
\* sep.join(parts)
Join(parts, sep) ==
    IF parts = << >> THEN << >>
    ELSE IF Len(parts) = 1 THEN parts[1]
    ELSE parts[1] \o sep \o Join(Tail(parts), sep)

Prefixes(s) == {SubSeq(s, 1, k) : k \in 0..Len(s)}

----------------------------------------------------------------------------
(* TrieNode: a trie is a function from node paths to the node's phoneme;   *)
(* the root is the empty path, and node p has a child under code point c   *)
(* exactly when p \o <<c>> is a node.                                      *)

EmptyTrie == [p \in {<< >>} |-> None]

HasChild(trie, p, c) == (p \o <<c>>) \in DOMAIN trie

\* an insert that leaves a node alone once it has a value
Insert_KeepFirst(trie, key, phoneme) ==
    [p \in DOMAIN trie \cup Prefixes(key) |->
        IF p \in DOMAIN trie /\ trie[p] # None THEN trie[p]
        ELSE IF p = key THEN Some(phoneme)
        ELSE None]

\* the phoneme of the node at path p, None when there is no such node
\* PhonemeConverter._insert / WordSegmenter._insert_word
Insert(trie, key, phoneme) ==
    [p \in DOMAIN trie \cup Prefixes(key) |->
        IF p = key THEN Some(phoneme)
        ELSE IF p \in DOMAIN trie THEN trie[p]
        ELSE None]

RECURSIVE Walk(_, _, _, _, _, _, _)
\* The inner while loop of convert / convert_detailed / segment: walk the
\* trie from `cur` over txt[i..], remembering the deepest node with a value.
Walk(trie, txt, p, i, cur, match_length, matched_phoneme) ==
    IF i >= Len(txt)
    THEN [match_length |-> match_length, matched_phoneme |-> matched_phoneme]
    ELSE IF ~HasChild(trie, cur, txt[i + 1])
    THEN [match_length |-> match_length, matched_phoneme |-> matched_phoneme]
    ELSE LET nxt == cur \o <<txt[i + 1]>>
         IN  IF trie[nxt] # None
             THEN Walk(trie, txt, p, i + 1, nxt, i - p + 1, trie[nxt])
             ELSE Walk(trie, txt, p, i + 1, nxt, match_length, matched_phoneme)

RECURSIVE WalkToFirst(_, _, _, _, _)
WalkToFirst(trie, txt, p, i, cur) ==
    IF i >= Len(txt) \/ ~HasChild(trie, cur, txt[i + 1])
    THEN [match_length |-> 0, matched_phoneme |-> None]
    ELSE LET nxt == cur \o <<txt[i + 1]>>
         IN  IF trie[nxt] # None
             THEN [match_length |-> i - p + 1, matched_phoneme |-> trie[nxt]]
             ELSE WalkToFirst(trie, txt, p, i + 1, nxt)

\* mutant of LongestMatch: the walk stops at the first node with a value
LongestMatch_First(trie, txt, p) == WalkToFirst(trie, txt, p, p, << >>)

LongestMatch(trie, txt, p) == Walk(trie, txt, p, p, << >>, 0, None)

\* mutant of ConvertIter: a code point that matches nothing is skipped
ConvertIter_DropUnmatched(trie, txt, p) ==
    LET m == LongestMatch(trie, txt, p)
    IN  IF m.match_length > 0
        THEN [emit |-> m.matched_phoneme[1], advance |-> m.match_length]
        ELSE [emit |-> << >>, advance |-> 1]

\* One iteration of convert's outer loop at cursor p: what is appended to
\* result and how far the cursor moves.
ConvertIter(trie, txt, p) ==
    LET m == LongestMatch(trie, txt, p)
    IN  IF m.match_length > 0
        THEN [emit |-> m.matched_phoneme[1], advance |-> m.match_length]
        ELSE [emit |-> <<txt[p + 1]>>, advance |-> 1]

RECURSIVE ConvertParts(_, _, _)
ConvertParts(trie, txt, p) ==
    IF p >= Len(txt) THEN << >>
    ELSE LET it == ConvertIter(trie, txt, p)
         IN  <<it.emit>> \o ConvertParts(trie, txt, p + it.advance)

\* PhonemeConverter.convert as a function of its input
convert(trie, txt) == Join(ConvertParts(trie, txt, 0), << >>)

----------------------------------------------------------------------------
(* The program as a state machine: the loading loop, then calls.           *)

\* the locals of a caller that is in no call
IdleLocals ==
    [pc |-> "idle", text |-> << >>, pos |-> 0, result |-> << >>,
     current_text |-> << >>, items |-> << >>, all_matches |-> << >>,
     all_unmatched |-> << >>, byte_offset |-> 0, ret |-> NoReturn]

Init ==
    /\ root = EmptyTrie
    /\ entry_count = 0
    /\ seg_root = EmptyTrie
    /\ word_count = 0
    /\ pc = "load"
    /\ text = << >>
    /\ pos = 0
    /\ result = << >>
    /\ current_text = << >>
    /\ items = << >>
    /\ all_matches = << >>
    /\ all_unmatched = << >>
    /\ byte_offset = 0
    /\ ret = NoReturn
    /\ entries_batch = << >>
    /\ batch_pos = 0
    /\ batch_conjugations = << >>
    /\ batch_conjugated_words = {}
    /\ batch_verb_count = 0
    /\ batch_pc = "idle"
    /\ phoneme_dict = << >>
    /\ word_set = {}
    /\ file = None
    /\ fpos = 0
    /\ to_read = 0
    /\ data = << >>
    /\ all_entries = << >>
    /\ batches = << >>
    /\ pending = {}
    /\ verb_count = 0
    /\ conjugated_words = {}
    /\ conjugation_count = 0
    /\ skipped_count = 0
    /\ completed_batches = 0
    /\ num_workers = 0
    /\ main_pc = "idle"
    /\ words_source = None
    /\ removed_punct = 0
    /\ converted_count = 0
    /\ running = 1
    /\ waiting = [c \in Callers |-> IdleLocals]

\* One iteration of the loading loop (try_load_binary_format's loop over
\* the entries of the file, load_from_json's over data.items()):
\* self._insert(key, value); self.entry_count += 1
LoadEntry(key, value) ==
    /\ pc = "load"
    /\ entry_count < MaxEntries
    /\ root' = Insert(root, key, value)
    /\ entry_count' = entry_count + 1
    /\ UNCHANGED <<seg_root, word_count, pc, text, pos, result, current_text, ret>>
    /\ UNCHANGED pipe
    /\ UNCHANGED <<batch, disk, merge, steps>>
    /\ UNCHANGED callers

\* main, binary mode: the segmenter uses the converter's trie
\* (segmenter.root = converter.root; segmenter.word_count = entry_count).
\* The branch is taken when try_load_binary_format returned True, which
\* it does only for a file of at least one entry: with none, the division
\* by entry_count raises and the loader returns False
LoadDone ==
    /\ pc = "load"
    /\ entry_count >= 1
    /\ pc' = "idle"
    /\ seg_root' = root
    /\ word_count' = entry_count
    /\ UNCHANGED <<root, entry_count, text, pos, result, current_text, ret>>
    /\ UNCHANGED pipe
    /\ UNCHANGED <<batch, disk, merge, steps>>
    /\ UNCHANGED callers

\* main, JSON mode: the segmenter keeps the trie load_from_file built.
\* load_from_json has returned, which it does only for a dictionary of at
\* least one entry: with none, its division by entry_count ends main
WordsDone ==
    /\ pc = "load"
    /\ entry_count >= 1
    /\ pc' = "idle"
    /\ UNCHANGED <<root, entry_count, seg_root, word_count, text, pos, result, current_text, ret>>
    /\ UNCHANGED pipe
    /\ UNCHANGED <<batch, disk, merge, steps>>
    /\ UNCHANGED callers

\* convert(japanese_text): result = [], pos = 0
ConvertCall(t) ==
    /\ pc = "idle"
    /\ pc' = "convert"
    /\ text' = t
    /\ pos' = 0
    /\ result' = << >>
    /\ ret' = NoReturn
    /\ UNCHANGED <<root, entry_count, seg_root, word_count, current_text>>
    /\ UNCHANGED pipe
    /\ UNCHANGED <<batch, disk, merge, steps>>
    /\ UNCHANGED callers

\* one iteration of `while pos < len(japanese_text)`
ConvertStep ==
    /\ pc = "convert"
    /\ pos < Len(text)
    /\ LET it == ConvertIter(root, text, pos)
       IN  /\ result' = Append(result, it.emit)
           /\ pos' = pos + it.advance
    /\ UNCHANGED <<root, entry_count, seg_root, word_count, pc, text, current_text, ret>>
    /\ UNCHANGED pipe
    /\ UNCHANGED <<batch, disk, merge, steps>>
    /\ UNCHANGED callers

\* a converter that keeps what it returned as an entry of its trie
ConvertReturn_Memo ==
    /\ pc = "convert"
    /\ pos >= Len(text)
    /\ ret' = [op |-> "convert", arg |-> text, value |-> Join(result, << >>)]
    /\ pc' = "returned"
    /\ root' = Insert(root, text, Join(result, << >>))
    /\ UNCHANGED <<entry_count, seg_root, word_count, text, pos, result, current_text>>
    /\ UNCHANGED pipe
    /\ UNCHANGED <<batch, disk, merge, steps>>
    /\ UNCHANGED callers

\* return ''.join(result)
ConvertReturn ==
    /\ pc = "convert"
    /\ pos >= Len(text)
    /\ ret' = [op |-> "convert", arg |-> text, value |-> Join(result, << >>)]
    /\ pc' = "returned"
    /\ UNCHANGED <<root, entry_count, seg_root, word_count, text, pos, result, current_text>>
    /\ UNCHANGED pipe
    /\ UNCHANGED <<batch, disk, merge, steps>>
    /\ UNCHANGED callers


\* main's loop over the inputs (`for text in args`, `while True: input`):
\* the returned value is printed and the next input is taken
NextInput ==
    /\ pc = "returned"
    /\ pc' = "idle"
    /\ text' = << >>
    /\ pos' = 0
    /\ result' = << >>
    /\ current_text' = << >>
    /\ items' = << >>
    /\ all_matches' = << >>
    /\ all_unmatched' = << >>
    /\ byte_offset' = 0
    /\ ret' = NoReturn
    /\ UNCHANGED <<root, entry_count, seg_root, word_count>>
    /\ UNCHANGED <<batch, disk, merge, steps>>
    /\ UNCHANGED callers

\* the locals of the running call: every one of them is a local variable
\* of the method (result = [], pos = 0, ...), none an attribute of the
\* converter or the segmenter
RunningLocals ==
    [pc |-> pc, text |-> text, pos |-> pos, result |-> result,
     current_text |-> current_text, items |-> items,
     all_matches |-> all_matches, all_unmatched |-> all_unmatched,
     byte_offset |-> byte_offset, ret |-> ret]

\* callers whose calls keep `result` on the shared object instead of in
\* the call: the list is not the caller's own
Switch_SharedResult(c) ==
    /\ pc # "load"
    /\ c \in Callers \ {running}
    /\ running' = c
    /\ waiting' = [waiting EXCEPT ![running] = RunningLocals, ![c] = IdleLocals]
    /\ pc' = waiting[c].pc
    /\ text' = waiting[c].text
    /\ pos' = waiting[c].pos
    /\ result' = result
    /\ current_text' = waiting[c].current_text
    /\ items' = waiting[c].items
    /\ all_matches' = waiting[c].all_matches
    /\ all_unmatched' = waiting[c].all_unmatched
    /\ byte_offset' = waiting[c].byte_offset
    /\ ret' = waiting[c].ret
    /\ UNCHANGED <<conv, segm, batch, disk, merge, steps>>

\* Another caller goes on: between two iterations of the running call's
\* loop (or before or after the call) caller c, who shares the converter
\* and the segmenter, continues where it stood.  The methods keep their
\* state in local variables, so each caller finds its own locals again;
\* the tries and the counts are the shared objects' and stay where they are.
Switch(c) ==
    /\ pc # "load"
    /\ c \in Callers \ {running}
    /\ running' = c
    /\ waiting' = [waiting EXCEPT ![running] = RunningLocals, ![c] = IdleLocals]
    /\ pc' = waiting[c].pc
    /\ text' = waiting[c].text
    /\ pos' = waiting[c].pos
    /\ result' = waiting[c].result
    /\ current_text' = waiting[c].current_text
    /\ items' = waiting[c].items
    /\ all_matches' = waiting[c].all_matches
    /\ all_unmatched' = waiting[c].all_unmatched
    /\ byte_offset' = waiting[c].byte_offset
    /\ ret' = waiting[c].ret
    /\ UNCHANGED <<conv, segm, batch, disk, merge, steps>>

----------------------------------------------------------------------------
(* WordSegmenter *)

\* the characters of ' \t\n\r'
Whitespace == {" ", "\t", "\n", "\r"}

\* the code points str.strip() removes when called without an argument:
\* every code point c with c.isspace()
UnicodeWhitespace ==
    {"\t", "\n", "U+000B", "U+000C", "\r",
     "U+001C", "U+001D", "U+001E", "U+001F", " ", "U+0085", "U+00A0",
     "U+1680", "U+2000", "U+2001", "U+2002", "U+2003", "U+2004", "U+2005",
     "U+2006", "U+2007", "U+2008", "U+2009", "U+200A", "U+2028", "U+2029",
     "U+202F", "U+205F", "U+3000"}

RECURSIVE LStrip(_)
LStrip(s) ==
    IF s # << >> /\ Head(s) \in UnicodeWhitespace THEN LStrip(Tail(s)) ELSE s

RECURSIVE RStrip(_)
RStrip(s) ==
    IF s # << >> /\ s[Len(s)] \in UnicodeWhitespace
    THEN RStrip(SubSeq(s, 1, Len(s) - 1))
    ELSE s

\* line.strip()
Strip(s) == RStrip(LStrip(s))

RECURSIVE GrammarEnd_NoLookahead(_, _, _)
\* a grammar branch that never ends its run at a word and takes the
\* whitespace character that ends the run into the token
GrammarEnd_NoLookahead(trie, txt, p) ==
    IF p >= Len(txt) THEN p
    ELSE IF txt[p + 1] \in Whitespace THEN p + 1
    ELSE GrammarEnd_NoLookahead(trie, txt, p + 1)

\* a grammar branch that takes one code point and looks no further
GrammarEnd_OneChar(trie, txt, p) == IF p >= Len(txt) THEN p ELSE p + 1

RECURSIVE GrammarEnd(_, _, _)
\* The inner `while pos < len(text)` of segment's grammar branch: the cursor
\* at which the grammar token that is being collected from p on ends.
GrammarEnd(trie, txt, p) ==
    IF p >= Len(txt) THEN p
    ELSE IF txt[p + 1] \in Whitespace THEN p
    ELSE IF LongestMatch(trie, txt, p).match_length > 0 THEN p
    ELSE GrammarEnd(trie, txt, p + 1)

\* a segmenter that skips whitespace without moving its cursor
SegmentIter_Stay(trie, txt, p) ==
    IF txt[p + 1] \in Whitespace
    THEN [emit |-> << >>, next |-> p]
    ELSE LET m == LongestMatch(trie, txt, p)
         IN  IF m.match_length > 0
             THEN [emit |-> <<Slice(txt, p, p + m.match_length)>>,
                   next |-> p + m.match_length]
             ELSE LET e == GrammarEnd(trie, txt, p)
                  IN  [emit |-> IF e > p THEN <<Slice(txt, p, e)>> ELSE << >>,
                       next |-> e]

\* One iteration of segment's outer loop at cursor p: the tokens appended
\* to words (none or one) and the cursor after the iteration.
SegmentIter(trie, txt, p) ==
    IF txt[p + 1] \in Whitespace
    THEN [emit |-> << >>, next |-> p + 1]
    ELSE LET m == LongestMatch(trie, txt, p)
         IN  IF m.match_length > 0
             THEN [emit |-> <<Slice(txt, p, p + m.match_length)>>,
                   next |-> p + m.match_length]
             ELSE LET e == GrammarEnd(trie, txt, p)
                  IN  [emit |-> IF e > p THEN <<Slice(txt, p, e)>> ELSE << >>,
                       next |-> e]

RECURSIVE SegmentFrom(_, _, _)
SegmentFrom(trie, txt, p) ==
    IF p >= Len(txt) THEN << >>
    ELSE LET it == SegmentIter(trie, txt, p)
         IN  it.emit \o SegmentFrom(trie, txt, it.next)

\* WordSegmenter.segment as a function of its input
segment(trie, txt) == SegmentFrom(trie, txt, 0)

\* load_from_file: one line of the word file
LoadWord(line) ==
    /\ pc = "load"
    /\ word_count < MaxWords
    /\ LET word == Strip(line)
       IN  IF word # << >>
           THEN /\ seg_root' = Insert(seg_root, word, << >>)
                /\ word_count' = word_count + 1
           ELSE UNCHANGED <<seg_root, word_count>>
    /\ UNCHANGED <<root, entry_count, pc, text, pos, result, current_text, ret>>
    /\ UNCHANGED pipe
    /\ UNCHANGED <<batch, disk, merge, steps>>
    /\ UNCHANGED callers

\* segment(text): words = [], pos = 0
SegmentCall(t) ==
    /\ pc = "idle"
    /\ pc' = "segment"
    /\ text' = t
    /\ pos' = 0
    /\ result' = << >>
    /\ ret' = NoReturn
    /\ UNCHANGED <<root, entry_count, seg_root, word_count, current_text>>
    /\ UNCHANGED pipe
    /\ UNCHANGED <<batch, disk, merge, steps>>
    /\ UNCHANGED callers

\* one iteration of `while pos < len(text)`
SegmentStep ==
    /\ pc = "segment"
    /\ pos < Len(text)
    /\ LET it == SegmentIter(seg_root, text, pos)
       IN  /\ result' = result \o it.emit
           /\ pos' = it.next
    /\ UNCHANGED <<root, entry_count, seg_root, word_count, pc, text, current_text, ret>>
    /\ UNCHANGED pipe
    /\ UNCHANGED <<batch, disk, merge, steps>>
    /\ UNCHANGED callers

\* return words
SegmentReturn ==
    /\ pc = "segment"
    /\ pos >= Len(text)
    /\ ret' = [op |-> "segment", arg |-> text, value |-> result]
    /\ pc' = "returned"
    /\ UNCHANGED <<root, entry_count, seg_root, word_count, text, pos, result, current_text>>
    /\ UNCHANGED pipe
    /\ UNCHANGED <<batch, disk, merge, steps>>
    /\ UNCHANGED callers

----------------------------------------------------------------------------
(* parse_furigana_hints *)

\* the characters of '「【『[' (U+300C, U+3010, U+300E, "[")
Opening == {"U+300C", "U+3010", "U+300E", "["}

\* closing = {'「': '」', '【': '】', '『': '』', '[': ']'}[text[i]]
Closing(c) ==
    CASE c = "U+300C" -> "U+300D"
      [] c = "U+3010" -> "U+3011"
      [] c = "U+300E" -> "U+300F"
      [] c = "[" -> "]"

\* text.find(c, start): the first index >= start that holds c, or -1
Find(txt, c, start) ==
    LET hits == {j \in start..(Len(txt) - 1) : txt[j + 1] = c}
    IN  IF hits = {} THEN -1
        ELSE CHOOSE j \in hits : \A h \in hits : j <= h

TextSegment(t, hint) == [text |-> t, furigana_hint |-> hint]

\* One iteration of `while i < len(text)`: the segments appended, the next
\* index and the next current_text.
ParseIter(txt, i, cur) ==
    IF txt[i + 1] \in Opening
    THEN LET base_text == cur
             hint_start == i + 1
             hint_end == Find(txt, Closing(txt[i + 1]), hint_start)
         IN  IF hint_end # -1
             THEN [emit |-> IF base_text # << >>
                            THEN <<TextSegment(base_text,
                                               Slice(txt, hint_start, hint_end))>>
                            ELSE << >>,
                   i |-> hint_end + 1,
                   current_text |-> << >>]
             ELSE [emit |-> << >>,
                   i |-> i + 1,
                   current_text |-> <<txt[i + 1]>>]
    ELSE [emit |-> << >>, i |-> i + 1, current_text |-> cur \o <<txt[i + 1]>>]

\* `if current_text: segments.append(TextSegment(text=current_text))`
ParseRest(cur) == IF cur # << >> THEN <<TextSegment(cur, << >>)>> ELSE << >>

RECURSIVE ParseFrom(_, _, _)
ParseFrom(txt, i, cur) ==
    IF i >= Len(txt) THEN ParseRest(cur)
    ELSE LET it == ParseIter(txt, i, cur)
         IN  it.emit \o ParseFrom(txt, it.i, it.current_text)

\* parse_furigana_hints as a function of its input
parse_furigana_hints(txt) == ParseFrom(txt, 0, << >>)

\* parse_furigana_hints(text): segments = [], current_text = "", i = 0
ParseCall(t) ==
    /\ pc = "idle"
    /\ pc' = "parse"
    /\ text' = t
    /\ pos' = 0
    /\ result' = << >>
    /\ current_text' = << >>
    /\ ret' = NoReturn
    /\ UNCHANGED <<root, entry_count, seg_root, word_count>>
    /\ UNCHANGED pipe
    /\ UNCHANGED <<batch, disk, merge, steps>>
    /\ UNCHANGED callers

\* one iteration of `while i < len(text)`
ParseStep ==
    /\ pc = "parse"
    /\ pos < Len(text)
    /\ LET it == ParseIter(text, pos, current_text)
       IN  /\ result' = result \o it.emit
           /\ pos' = it.i
           /\ current_text' = it.current_text
    /\ UNCHANGED <<root, entry_count, seg_root, word_count, pc, text, ret>>
    /\ UNCHANGED pipe
    /\ UNCHANGED <<batch, disk, merge, steps>>
    /\ UNCHANGED callers

\* the remaining text is appended and the segments are returned
ParseReturn ==
    /\ pc = "parse"
    /\ pos >= Len(text)
    /\ ret' = [op |-> "parse", arg |-> text,
               value |-> result \o ParseRest(current_text)]
    /\ pc' = "returned"
    /\ UNCHANGED <<root, entry_count, seg_root, word_count, text, pos, result,
                   current_text>>
    /\ UNCHANGED pipe
    /\ UNCHANGED <<batch, disk, merge, steps>>
    /\ UNCHANGED callers

----------------------------------------------------------------------------
(* convert_detailed, convert_with_segmentation,                            *)
(* convert_detailed_with_segmentation                                      *)

\* ord(c) for the code points the model knows
CodePointOf ==
    (("\t" :> 9 @@ "\n" :> 10 @@ "U+000B" :> 11 @@ "U+000C" :> 12) @@
     ("\r" :> 13 @@ " " :> 32 @@ "!" :> 33 @@ "U+0022" :> 34) @@
     ("#" :> 35 @@ "$" :> 36 @@ "%" :> 37 @@ "&" :> 38) @@
     ("'" :> 39 @@ "(" :> 40 @@ ")" :> 41 @@ "*" :> 42) @@
     ("+" :> 43 @@ "," :> 44 @@ "-" :> 45 @@ "." :> 46) @@
     ("/" :> 47 @@ "0" :> 48 @@ "1" :> 49 @@ "2" :> 50) @@
     ("3" :> 51 @@ "4" :> 52 @@ "5" :> 53 @@ "6" :> 54) @@
     ("7" :> 55 @@ "8" :> 56 @@ "9" :> 57 @@ ":" :> 58)) @@
    ((";" :> 59 @@ "<" :> 60 @@ "=" :> 61 @@ ">" :> 62) @@
     ("?" :> 63 @@ "@" :> 64 @@ "A" :> 65 @@ "B" :> 66) @@
     ("C" :> 67 @@ "D" :> 68 @@ "E" :> 69 @@ "F" :> 70) @@
     ("G" :> 71 @@ "H" :> 72 @@ "I" :> 73 @@ "J" :> 74) @@
     ("K" :> 75 @@ "L" :> 76 @@ "M" :> 77 @@ "N" :> 78) @@
     ("O" :> 79 @@ "P" :> 80 @@ "Q" :> 81 @@ "R" :> 82) @@
     ("S" :> 83 @@ "T" :> 84 @@ "U" :> 85 @@ "V" :> 86) @@
     ("W" :> 87 @@ "X" :> 88 @@ "Y" :> 89 @@ "Z" :> 90)) @@
    (("[" :> 91 @@ "U+005C" :> 92 @@ "]" :> 93 @@ "^" :> 94) @@
     ("_" :> 95 @@ "U+0060" :> 96 @@ "a" :> 97 @@ "b" :> 98) @@
     ("c" :> 99 @@ "d" :> 100 @@ "e" :> 101 @@ "f" :> 102) @@
     ("g" :> 103 @@ "h" :> 104 @@ "i" :> 105 @@ "j" :> 106) @@
     ("k" :> 107 @@ "l" :> 108 @@ "m" :> 109 @@ "n" :> 110) @@
     ("o" :> 111 @@ "p" :> 112 @@ "q" :> 113 @@ "r" :> 114) @@
     ("s" :> 115 @@ "t" :> 116 @@ "u" :> 117 @@ "v" :> 118) @@
     ("w" :> 119 @@ "x" :> 120 @@ "y" :> 121 @@ "z" :> 122)) @@
    (("{" :> 123 @@ "|" :> 124 @@ "}" :> 125 @@ "~" :> 126) @@
     ("U+00E7" :> 231 @@ "U+0255" :> 597 @@ "U+026F" :> 623 @@ "U+0270" :> 624) @@
     ("U+0274" :> 628 @@ "U+0278" :> 632 @@ "U+027E" :> 638 @@ "U+0283" :> 643) @@
     ("U+0291" :> 657 @@ "U+0292" :> 658 @@ "U+0294" :> 660 @@ "U+02A3" :> 675) @@
     ("U+02A4" :> 676 @@ "U+02A5" :> 677 @@ "U+02A6" :> 678 @@ "U+02A7" :> 679) @@
     ("U+02A8" :> 680 @@ "U+02D0" :> 720 @@ "U+3000" :> 12288 @@ "U+3001" :> 12289) @@
     ("U+3002" :> 12290 @@ "U+300C" :> 12300 @@ "U+300D" :> 12301 @@ "U+300E" :> 12302) @@
     ("U+300F" :> 12303 @@ "U+3010" :> 12304 @@ "U+3011" :> 12305 @@ "U+3041" :> 12353)) @@
    (("U+3042" :> 12354 @@ "U+3043" :> 12355 @@ "U+3044" :> 12356 @@ "U+3045" :> 12357) @@
     ("U+3046" :> 12358 @@ "U+3047" :> 12359 @@ "U+3048" :> 12360 @@ "U+3049" :> 12361) @@
     ("U+304A" :> 12362 @@ "U+304B" :> 12363 @@ "U+304C" :> 12364 @@ "U+304D" :> 12365) @@
     ("U+304E" :> 12366 @@ "U+304F" :> 12367 @@ "U+3050" :> 12368 @@ "U+3051" :> 12369) @@
     ("U+3052" :> 12370 @@ "U+3053" :> 12371 @@ "U+3054" :> 12372 @@ "U+3055" :> 12373) @@
     ("U+3056" :> 12374 @@ "U+3057" :> 12375 @@ "U+3058" :> 12376 @@ "U+3059" :> 12377) @@
     ("U+305A" :> 12378 @@ "U+305B" :> 12379 @@ "U+305C" :> 12380 @@ "U+305D" :> 12381) @@
     ("U+305E" :> 12382 @@ "U+305F" :> 12383 @@ "U+3060" :> 12384 @@ "U+3061" :> 12385)) @@
    (("U+3062" :> 12386 @@ "U+3063" :> 12387 @@ "U+3064" :> 12388 @@ "U+3065" :> 12389) @@
     ("U+3066" :> 12390 @@ "U+3067" :> 12391 @@ "U+3068" :> 12392 @@ "U+3069" :> 12393) @@
     ("U+306A" :> 12394 @@ "U+306B" :> 12395 @@ "U+306C" :> 12396 @@ "U+306D" :> 12397) @@
     ("U+306E" :> 12398 @@ "U+306F" :> 12399 @@ "U+3070" :> 12400 @@ "U+3071" :> 12401) @@
     ("U+3072" :> 12402 @@ "U+3073" :> 12403 @@ "U+3074" :> 12404 @@ "U+3075" :> 12405) @@
     ("U+3076" :> 12406 @@ "U+3077" :> 12407 @@ "U+3078" :> 12408 @@ "U+3079" :> 12409) @@
     ("U+307A" :> 12410 @@ "U+307B" :> 12411 @@ "U+307C" :> 12412 @@ "U+307D" :> 12413) @@
     ("U+307E" :> 12414 @@ "U+307F" :> 12415 @@ "U+3080" :> 12416 @@ "U+3081" :> 12417)) @@
    (("U+3082" :> 12418 @@ "U+3083" :> 12419 @@ "U+3084" :> 12420 @@ "U+3085" :> 12421) @@
     ("U+3086" :> 12422 @@ "U+3087" :> 12423 @@ "U+3088" :> 12424 @@ "U+3089" :> 12425) @@
     ("U+308A" :> 12426 @@ "U+308B" :> 12427 @@ "U+308C" :> 12428 @@ "U+308D" :> 12429) @@
     ("U+308E" :> 12430 @@ "U+308F" :> 12431 @@ "U+3090" :> 12432 @@ "U+3091" :> 12433) @@
     ("U+3092" :> 12434 @@ "U+3093" :> 12435 @@ "U+3094" :> 12436 @@ "U+30A1" :> 12449) @@
     ("U+30A2" :> 12450 @@ "U+30A3" :> 12451 @@ "U+30A4" :> 12452 @@ "U+30A5" :> 12453) @@
     ("U+30A6" :> 12454 @@ "U+30A7" :> 12455 @@ "U+30A8" :> 12456 @@ "U+30A9" :> 12457) @@
     ("U+30AA" :> 12458 @@ "U+30AB" :> 12459 @@ "U+30AC" :> 12460 @@ "U+30AD" :> 12461)) @@
    (("U+30AE" :> 12462 @@ "U+30AF" :> 12463 @@ "U+30B0" :> 12464 @@ "U+30B1" :> 12465) @@
     ("U+30B2" :> 12466 @@ "U+30B3" :> 12467 @@ "U+30B4" :> 12468 @@ "U+30B5" :> 12469) @@
     ("U+30B6" :> 12470 @@ "U+30B7" :> 12471 @@ "U+30B8" :> 12472 @@ "U+30B9" :> 12473) @@
     ("U+30BA" :> 12474 @@ "U+30BB" :> 12475 @@ "U+30BC" :> 12476 @@ "U+30BD" :> 12477) @@
     ("U+30BE" :> 12478 @@ "U+30BF" :> 12479 @@ "U+30C0" :> 12480 @@ "U+30C1" :> 12481) @@
     ("U+30C2" :> 12482 @@ "U+30C3" :> 12483 @@ "U+30C4" :> 12484 @@ "U+30C5" :> 12485) @@
     ("U+30C6" :> 12486 @@ "U+30C7" :> 12487 @@ "U+30C8" :> 12488 @@ "U+30C9" :> 12489) @@
     ("U+30CA" :> 12490 @@ "U+30CB" :> 12491 @@ "U+30CC" :> 12492 @@ "U+30CD" :> 12493)) @@
    (("U+30CE" :> 12494 @@ "U+30CF" :> 12495 @@ "U+30D0" :> 12496 @@ "U+30D1" :> 12497) @@
     ("U+30D2" :> 12498 @@ "U+30D3" :> 12499 @@ "U+30D4" :> 12500 @@ "U+30D5" :> 12501) @@
     ("U+30D6" :> 12502 @@ "U+30D7" :> 12503 @@ "U+30D8" :> 12504 @@ "U+30D9" :> 12505) @@
     ("U+30DA" :> 12506 @@ "U+30DB" :> 12507 @@ "U+30DC" :> 12508 @@ "U+30DD" :> 12509) @@
     ("U+30DE" :> 12510 @@ "U+30DF" :> 12511 @@ "U+30E0" :> 12512 @@ "U+30E1" :> 12513) @@
     ("U+30E2" :> 12514 @@ "U+30E3" :> 12515 @@ "U+30E4" :> 12516 @@ "U+30E5" :> 12517) @@
     ("U+30E6" :> 12518 @@ "U+30E7" :> 12519 @@ "U+30E8" :> 12520 @@ "U+30E9" :> 12521) @@
     ("U+30EA" :> 12522 @@ "U+30EB" :> 12523 @@ "U+30EC" :> 12524 @@ "U+30ED" :> 12525)) @@
    (("U+30EE" :> 12526 @@ "U+30EF" :> 12527 @@ "U+30F0" :> 12528 @@ "U+30F1" :> 12529) @@
     ("U+30F2" :> 12530 @@ "U+30F3" :> 12531 @@ "U+30F4" :> 12532 @@ "U+30F5" :> 12533) @@
     ("U+30F6" :> 12534 @@ "U+30F7" :> 12535 @@ "U+30F8" :> 12536 @@ "U+30F9" :> 12537) @@
     ("U+30FA" :> 12538 @@ "U+5165" :> 20837 @@ "U+51FA" :> 20986 @@ "U+5207" :> 20999) @@
     ("U+52C9" :> 21193 @@ "U+53D6" :> 21462 @@ "U+54B2" :> 21682 @@ "U+5E30" :> 24112) @@
     ("U+5F37" :> 24375 @@ "U+637B" :> 25467 @@ "U+63E1" :> 25569 @@ "U+66F8" :> 26360) @@
     ("U+6765" :> 26469 @@ "U+6E1B" :> 28187 @@ "U+6ED1" :> 28369 @@ "U+7126" :> 28966) @@
     ("U+732B" :> 29483 @@ "U+77E5" :> 30693 @@ "U+7DF4" :> 32244 @@ "U+884C" :> 34892)) @@
    (("U+8981" :> 35201 @@ "U+8986" :> 35206 @@ "U+898B" :> 35211 @@ "U+8D70" :> 36208) @@
     ("U+8E74" :> 36468 @@ "U+906E" :> 36974 @@ "U+9650" :> 38480 @@ "U+98DF" :> 39135))

CodePoints == DOMAIN CodePointOf

Ord(c) == CodePointOf[c]

\* len(c.encode('utf-8')) of one code point
Utf8CharLen(c) ==
    IF Ord(c) < 128 THEN 1
    ELSE IF Ord(c) < 2048 THEN 2
    ELSE IF Ord(c) < 65536 THEN 3
    ELSE 4

\* len(s.encode('utf-8'))
RECURSIVE Utf8Len(_)
Utf8Len(s) == IF s = << >> THEN 0 ELSE Utf8CharLen(Head(s)) + Utf8Len(Tail(s))

Match(original, phoneme, start_index) ==
    [original |-> original, phoneme |-> phoneme, start_index |-> start_index]

\* a convert_detailed that passes an unknown character through without
\* recording it
ConvertDetailedIter_NoRecord(trie, txt, p) ==
    LET m == LongestMatch(trie, txt, p)
    IN  IF m.match_length > 0
        THEN [part |-> m.matched_phoneme[1],
              matches |-> <<Match(Slice(txt, p, p + m.match_length),
                                  m.matched_phoneme[1], p)>>,
              unmatched |-> << >>,
              advance |-> m.match_length]
        ELSE [part |-> <<txt[p + 1]>>,
              matches |-> << >>,
              unmatched |-> << >>,
              advance |-> 1]

\* One iteration of convert_detailed's `while pos < len(japanese_text)`
ConvertDetailedIter(trie, txt, p) ==
    LET m == LongestMatch(trie, txt, p)
    IN  IF m.match_length > 0
        THEN [part |-> m.matched_phoneme[1],
              matches |-> <<Match(Slice(txt, p, p + m.match_length),
                                  m.matched_phoneme[1], p)>>,
              unmatched |-> << >>,
              advance |-> m.match_length]
        ELSE [part |-> <<txt[p + 1]>>,
              matches |-> << >>,
              unmatched |-> << <<txt[p + 1]>> >>,
              advance |-> 1]

RECURSIVE ConvertDetailedFrom(_, _, _, _)
ConvertDetailedFrom(trie, txt, p, acc) ==
    IF p >= Len(txt) THEN acc
    ELSE LET it == ConvertDetailedIter(trie, txt, p)
         IN  ConvertDetailedFrom(trie, txt, p + it.advance,
                 [result |-> Append(acc.result, it.part),
                  matches |-> acc.matches \o it.matches,
                  unmatched |-> acc.unmatched \o it.unmatched])

convert_detailed(trie, txt) ==
    LET r == ConvertDetailedFrom(trie, txt, 0,
                 [result |-> << >>, matches |-> << >>, unmatched |-> << >>])
    IN  [phonemes |-> Join(r.result, << >>),
         matches |-> r.matches,
         unmatched |-> r.unmatched]

\* `for match in word_result.matches: match.start_index += byte_offset`
AdjustMatches(matches, offset) ==
    [k \in 1..Len(matches) |->
        [matches[k] EXCEPT !.start_index = @ + offset]]

\* `for word in words:` of the normal branch, from the k-th word on
RECURSIVE WordsLoop(_, _, _, _)
WordsLoop(trie, words, k, acc) ==
    IF k > Len(words) THEN acc
    ELSE LET word_result == convert_detailed(trie, words[k])
         IN  WordsLoop(trie, words, k + 1,
                 [phoneme_parts |-> Append(acc.phoneme_parts, word_result.phonemes),
                  all_matches |-> acc.all_matches
                      \o AdjustMatches(word_result.matches, acc.byte_offset),
                  all_unmatched |-> acc.all_unmatched \o word_result.unmatched,
                  byte_offset |-> acc.byte_offset + Utf8Len(words[k])])

\* One iteration of `for segment in segments:`
SegmentBody(trie, strie, seg, acc) ==
    IF seg.furigana_hint # << >>
    THEN LET hint_result == convert_detailed(trie, seg.furigana_hint)
         IN  [phoneme_parts |->
                  IF hint_result.phonemes # << >>
                  THEN Append(acc.phoneme_parts, hint_result.phonemes)
                  ELSE acc.phoneme_parts,
              all_matches |->
                  IF hint_result.phonemes # << >>
                  THEN Append(acc.all_matches,
                           Match(seg.text, hint_result.phonemes, acc.byte_offset))
                  ELSE acc.all_matches,
              all_unmatched |-> acc.all_unmatched,
              byte_offset |-> acc.byte_offset + Utf8Len(seg.text)]
    ELSE WordsLoop(trie, segment(strie, seg.text), 1, acc)

\* convert_with_segmentation: words = segmenter.segment(text); result = []
CwsCall(t) ==
    /\ pc = "idle"
    /\ pc' = "cws"
    /\ text' = t
    /\ items' = segment(seg_root, t)
    /\ pos' = 0
    /\ result' = << >>
    /\ ret' = NoReturn
    /\ UNCHANGED <<root, entry_count, seg_root, word_count, current_text,
                   all_matches, all_unmatched, byte_offset>>
    /\ UNCHANGED <<batch, disk, merge, steps>>
    /\ UNCHANGED callers

\* `for word in words: result.append(converter.convert(word))`
CwsStep ==
    /\ pc = "cws"
    /\ pos < Len(items)
    /\ result' = Append(result, convert(root, items[pos + 1]))
    /\ pos' = pos + 1
    /\ UNCHANGED <<root, entry_count, seg_root, word_count, pc, text,
                   current_text, items, all_matches, all_unmatched,
                   byte_offset, ret>>
    /\ UNCHANGED <<batch, disk, merge, steps>>
    /\ UNCHANGED callers

\* return ' '.join(result)
CwsReturn ==
    /\ pc = "cws"
    /\ pos >= Len(items)
    /\ ret' = [op |-> "cws", arg |-> text, value |-> Join(result, <<" ">>)]
    /\ pc' = "returned"
    /\ UNCHANGED <<root, entry_count, seg_root, word_count, text, pos, result,
                   current_text>>
    /\ UNCHANGED pipe
    /\ UNCHANGED <<batch, disk, merge, steps>>
    /\ UNCHANGED callers

\* convert_detailed_with_segmentation: segments = parse_furigana_hints(text)
CdwsCall(t) ==
    /\ pc = "idle"
    /\ pc' = "cdws"
    /\ text' = t
    /\ items' = parse_furigana_hints(t)
    /\ pos' = 0
    /\ result' = << >>
    /\ all_matches' = << >>
    /\ all_unmatched' = << >>
    /\ byte_offset' = 0
    /\ ret' = NoReturn
    /\ UNCHANGED <<root, entry_count, seg_root, word_count, current_text>>
    /\ UNCHANGED <<batch, disk, merge, steps>>
    /\ UNCHANGED callers

\* one iteration of `for segment in segments:`
CdwsStep ==
    /\ pc = "cdws"
    /\ pos < Len(items)
    /\ LET r == SegmentBody(root, seg_root, items[pos + 1],
                    [phoneme_parts |-> result, all_matches |-> all_matches,
                     all_unmatched |-> all_unmatched,
                     byte_offset |-> byte_offset])
       IN  /\ result' = r.phoneme_parts
           /\ all_matches' = r.all_matches
           /\ all_unmatched' = r.all_unmatched
           /\ byte_offset' = r.byte_offset
    /\ pos' = pos + 1
    /\ UNCHANGED <<root, entry_count, seg_root, word_count, pc, text,
                   current_text, items, ret>>
    /\ UNCHANGED <<batch, disk, merge, steps>>
    /\ UNCHANGED callers

\* return ConversionResult(' '.join(phoneme_parts), all_matches, all_unmatched)
CdwsReturn ==
    /\ pc = "cdws"
    /\ pos >= Len(items)
    /\ ret' = [op |-> "cdws", arg |-> text,
               value |-> [phonemes |-> Join(result, <<" ">>),
                          matches |-> all_matches,
                          unmatched |-> all_unmatched]]
    /\ pc' = "returned"
    /\ UNCHANGED <<root, entry_count, seg_root, word_count, text, pos, result,
                   current_text>>
    /\ UNCHANGED pipe
    /\ UNCHANGED <<batch, disk, merge, steps>>
    /\ UNCHANGED callers

\* convert_detailed(japanese_text): matches = [], unmatched = [], result = [],
\* pos = 0 (matches and unmatched are held in all_matches, all_unmatched)
ConvertDetailedCall(t) ==
    /\ pc = "idle"
    /\ pc' = "convert_detailed"
    /\ text' = t
    /\ pos' = 0
    /\ result' = << >>
    /\ all_matches' = << >>
    /\ all_unmatched' = << >>
    /\ ret' = NoReturn
    /\ UNCHANGED <<root, entry_count, seg_root, word_count, current_text,
                   items, byte_offset>>
    /\ UNCHANGED <<batch, disk, merge, steps>>
    /\ UNCHANGED callers

\* one iteration of convert_detailed's `while pos < len(japanese_text)`
ConvertDetailedStep ==
    /\ pc = "convert_detailed"
    /\ pos < Len(text)
    /\ LET it == ConvertDetailedIter(root, text, pos)
       IN  /\ result' = Append(result, it.part)
           /\ all_matches' = all_matches \o it.matches
           /\ all_unmatched' = all_unmatched \o it.unmatched
           /\ pos' = pos + it.advance
    /\ UNCHANGED <<root, entry_count, seg_root, word_count, pc, text,
                   current_text, items, byte_offset, ret>>
    /\ UNCHANGED <<batch, disk, merge, steps>>
    /\ UNCHANGED callers

\* return ConversionResult(''.join(result), matches, unmatched)
ConvertDetailedReturn ==
    /\ pc = "convert_detailed"
    /\ pos >= Len(text)
    /\ ret' = [op |-> "convert_detailed", arg |-> text,
               value |-> [phonemes |-> Join(result, << >>),
                          matches |-> all_matches,
                          unmatched |-> all_unmatched]]
    /\ pc' = "returned"
    /\ UNCHANGED <<root, entry_count, seg_root, word_count, text, pos, result,
                   current_text>>
    /\ UNCHANGED pipe
    /\ UNCHANGED <<batch, disk, merge, steps>>
    /\ UNCHANGED callers

----------------------------------------------------------------------------
(* fix_and_align_phonemes.py: the verb conjugation system                  *)

\* str.endswith(suffix)
EndsWith(s, suffix) ==
    /\ Len(suffix) <= Len(s)
    /\ SubSeq(s, Len(s) - Len(suffix) + 1, Len(s)) = suffix

\* s[:-n] for n >= 1
DropLast(s, n) == IF Len(s) <= n THEN << >> ELSE SubSeq(s, 1, Len(s) - n)

\* s[-n], a one-character str (the model reads it where len(s) >= n)
CharFromEnd(s, n) == <<s[Len(s) - n + 1]>>

\* a dict is a function from its keys; d[k] = v assigns
EmptyDict == << >>
Put(d, k, v) == [x \in (DOMAIN d) \cup {k} |-> IF x = k THEN v ELSE d[x]]

\* the assignments d[k] = v for the <<k, v>> of `pairs`, in order: a key
\* ends with the value of the last pair that names it
Assign(d, pairs) ==
    LET keys == {pairs[i][1] : i \in DOMAIN pairs}
        last(x) == CHOOSE i \in DOMAIN pairs :
                       /\ pairs[i][1] = x
                       /\ \A j \in DOMAIN pairs : pairs[j][1] = x => j <= i
    IN  [x \in (DOMAIN d) \cup keys |->
            IF x \in keys THEN pairs[last(x)][2] ELSE d[x]]

\* `key in table`, for a table keyed by single characters
InTable(key, table) == Len(key) = 1 /\ key[1] \in DOMAIN table

GODAN_TE_TA_MAP ==
    "k" :> <<<<"i">>, <<"t", "e">>, <<"t", "a">>>> @@
    "g" :> <<<<"i">>, <<"d", "e">>, <<"d", "a">>>> @@
    "s" :> <<<<"U+0255", "i">>, <<"t", "e">>, <<"t", "a">>>> @@   \* ɕi
    "t" :> <<<<"t", "U+02D0">>, <<"e">>, <<"a">>>> @@   \* tː
    "n" :> <<<<"U+0274">>, <<"d", "e">>, <<"d", "a">>>> @@   \* ɴ
    "b" :> <<<<"U+0274">>, <<"d", "e">>, <<"d", "a">>>> @@   \* ɴ
    "m" :> <<<<"U+0274">>, <<"d", "e">>, <<"d", "a">>>> @@   \* ɴ
    "U+027E" :> <<<<"t", "U+02D0">>, <<"e">>, <<"a">>>> @@   \* ɾ tː
    "U+0270" :> <<<<"t", "U+02D0">>, <<"e">>, <<"a">>>>   \* ɰ tː

GODAN_TE_TA_TEXT ==
    "U+304F" :> <<<<"U+3044">>, <<"U+3066">>, <<"U+305F">>>> @@   \* く い て た
    "U+3050" :> <<<<"U+3044">>, <<"U+3067">>, <<"U+3060">>>> @@   \* ぐ い で だ
    "U+3059" :> <<<<"U+3057">>, <<"U+3066">>, <<"U+305F">>>> @@   \* す し て た
    "U+3064" :> <<<<"U+3063">>, <<"U+3066">>, <<"U+305F">>>> @@   \* つ っ て た
    "U+306C" :> <<<<"U+3093">>, <<"U+3067">>, <<"U+3060">>>> @@   \* ぬ ん で だ
    "U+3076" :> <<<<"U+3093">>, <<"U+3067">>, <<"U+3060">>>> @@   \* ぶ ん で だ
    "U+3080" :> <<<<"U+3093">>, <<"U+3067">>, <<"U+3060">>>> @@   \* む ん で だ
    "U+308B" :> <<<<"U+3063">>, <<"U+3066">>, <<"U+305F">>>> @@   \* る っ て た
    "U+3046" :> <<<<"U+3063">>, <<"U+3066">>, <<"U+305F">>>>   \* う っ て た

SuruStems ==
    [text |-> [mizen |-> <<"U+3057">>, renyou |-> <<"U+3057">>, base |-> <<"U+3059">>],   \* し し す
     phoneme |-> [mizen |-> <<"U+0255", "i">>, renyou |-> <<"U+0255", "i">>, base |-> <<"s", "U+026F">>]]   \* ɕi ɕi sɯ

KuruStems ==
    [text |-> [mizen |-> <<"U+3053">>, renyou |-> <<"U+304D">>, base |-> <<"U+304F">>],   \* こ き く
     phoneme |-> [mizen |-> <<"k", "o">>, renyou |-> <<"k", "i">>, base |-> <<"k", "U+026F">>]]   \* kɯ

\* keyed by the word: する, 来る, くる
IRREGULAR_VERBS ==
    <<"U+3059", "U+308B">> :> [type |-> <<"s", "u", "r", "u">>, phoneme |-> <<"s", "U+026F", "U+027E", "U+026F">>, stems |-> SuruStems] @@   \* する sɯɾɯ
    <<"U+6765", "U+308B">> :> [type |-> <<"k", "u", "r", "u">>, phoneme |-> <<"k", "U+026F", "U+027E", "U+026F">>, stems |-> KuruStems] @@   \* 来る kɯɾɯ
    <<"U+304F", "U+308B">> :> [type |-> <<"k", "u", "r", "u">>, phoneme |-> <<"k", "U+026F", "U+027E", "U+026F">>, stems |-> KuruStems]   \* くる kɯɾɯ

GODAN_EXCEPTIONS ==
    {<<"U+5E30", "U+308B">>, <<"U+5207", "U+308B">>, <<"U+8D70", "U+308B">>, <<"U+5165", "U+308B">>, <<"U+8981", "U+308B">>, <<"U+77E5", "U+308B">>, <<"U+8E74", "U+308B">>, <<"U+6ED1", "U+308B">>,   \* 帰る 切る 走る 入る 要る 知る 蹴る 滑る
     <<"U+9650", "U+308B">>, <<"U+63E1", "U+308B">>, <<"U+7DF4", "U+308B">>, <<"U+6E1B", "U+308B">>, <<"U+7126", "U+308B">>, <<"U+8986", "U+308B">>, <<"U+906E", "U+308B">>, <<"U+637B", "U+308B">>}   \* 限る 握る 練る 減る 焦る 覆る 遮る 捻る

\* the verb type (a str) as Some(type), or None if the word is not a verb
\* detect_verb_type without the lookup in GODAN_EXCEPTIONS: the class of a
\* る-verb decided by the phoneme alone
detect_verb_type_NoExceptions(word, phoneme) ==
    IF word \in DOMAIN IRREGULAR_VERBS THEN Some(IRREGULAR_VERBS[word].type)
    ELSE IF word = <<"U+3042", "U+308B">> THEN Some(<<"a", "r", "u">>)   \* ある
    ELSE IF word = <<"U+884C", "U+304F">> \/ word = <<"U+3044", "U+304F">> THEN Some(<<"i", "k", "u">>)   \* 行く いく
    ELSE IF EndsWith(word, <<"U+3059", "U+308B">>) /\ Len(word) > 2 THEN Some(<<"s", "u", "r", "u", "_", "c", "o", "m", "p", "o", "u", "n", "d">>)   \* する
    ELSE IF \/ (EndsWith(word, <<"U+6765", "U+308B">>) /\ Len(word) > 2)   \* 来る
            \/ (EndsWith(word, <<"U+304F", "U+308B">>) /\ Len(word) > 2)   \* くる
         THEN Some(<<"k", "u", "r", "u", "_", "c", "o", "m", "p", "o", "u", "n", "d">>)
    ELSE IF ~EndsWith(word, <<"U+308B">>) THEN None   \* る
    ELSE IF /\ EndsWith(phoneme, <<"U+027E", "U+026F">>)   \* ɾɯ
            /\ Len(DropLast(phoneme, 2)) > 0
            /\ \/ EndsWith(DropLast(phoneme, 2), <<"i">>)
               \/ EndsWith(DropLast(phoneme, 2), <<"e">>)
         THEN Some(<<"i", "c", "h", "i", "d", "a", "n">>)
    ELSE Some(<<"g", "o", "d", "a", "n", "_", "r", "u">>)

detect_verb_type(word, phoneme) ==
    IF word \in DOMAIN IRREGULAR_VERBS THEN Some(IRREGULAR_VERBS[word].type)
    ELSE IF word = <<"U+3042", "U+308B">> THEN Some(<<"a", "r", "u">>)   \* ある
    ELSE IF word = <<"U+884C", "U+304F">> \/ word = <<"U+3044", "U+304F">> THEN Some(<<"i", "k", "u">>)   \* 行く いく
    ELSE IF EndsWith(word, <<"U+3059", "U+308B">>) /\ Len(word) > 2 THEN Some(<<"s", "u", "r", "u", "_", "c", "o", "m", "p", "o", "u", "n", "d">>)   \* する
    ELSE IF \/ (EndsWith(word, <<"U+6765", "U+308B">>) /\ Len(word) > 2)   \* 来る
            \/ (EndsWith(word, <<"U+304F", "U+308B">>) /\ Len(word) > 2)   \* くる
         THEN Some(<<"k", "u", "r", "u", "_", "c", "o", "m", "p", "o", "u", "n", "d">>)
    ELSE IF ~EndsWith(word, <<"U+308B">>) THEN None   \* る
    ELSE IF word \in GODAN_EXCEPTIONS THEN Some(<<"g", "o", "d", "a", "n", "_", "r", "u">>)
    ELSE IF /\ EndsWith(phoneme, <<"U+027E", "U+026F">>)   \* ɾɯ
            /\ Len(DropLast(phoneme, 2)) > 0
            /\ \/ EndsWith(DropLast(phoneme, 2), <<"i">>)
               \/ EndsWith(DropLast(phoneme, 2), <<"e">>)
         THEN Some(<<"i", "c", "h", "i", "d", "a", "n">>)
    ELSE Some(<<"g", "o", "d", "a", "n", "_", "r", "u">>)

\* str.startswith(prefix)
StartsWith(s, prefix) ==
    /\ Len(prefix) <= Len(s)
    /\ SubSeq(s, 1, Len(prefix)) = prefix

\* verb_type.startswith('godan') or verb_type in ['iku', 'aru']
IsGodanLike(verb_type) ==
    StartsWith(verb_type, <<"g", "o", "d", "a", "n">>) \/ verb_type \in {<<"i", "k", "u">>, <<"a", "r", "u">>}

get_verb_stems(word, phoneme, verb_type) ==
    IF verb_type \in {<<"s", "u", "r", "u">>, <<"k", "u", "r", "u">>}
    THEN IRREGULAR_VERBS[IF word \in DOMAIN IRREGULAR_VERBS THEN word ELSE <<"U+6765", "U+308B">>].stems   \* 来る
    ELSE IF verb_type = <<"s", "u", "r", "u", "_", "c", "o", "m", "p", "o", "u", "n", "d">>
    THEN LET text_prefix == DropLast(word, 2)
             phoneme_prefix == DropLast(phoneme, 3)
         IN  [text |-> [prefix |-> text_prefix,
                        mizen |-> text_prefix \o <<"U+3057">>,   \* し
                        renyou |-> text_prefix \o <<"U+3057">>,   \* し
                        base |-> text_prefix \o <<"U+3059">>],   \* す
              phoneme |-> [prefix |-> phoneme_prefix,
                           mizen |-> phoneme_prefix \o <<"U+0255", "i">>,   \* ɕi
                           renyou |-> phoneme_prefix \o <<"U+0255", "i">>,   \* ɕi
                           base |-> phoneme_prefix \o <<"s", "U+026F">>]]   \* sɯ
    ELSE IF verb_type = <<"k", "u", "r", "u", "_", "c", "o", "m", "p", "o", "u", "n", "d">>
    THEN LET text_prefix == DropLast(word, 2)
             phoneme_prefix == DropLast(phoneme, 3)
         IN  [text |-> [prefix |-> text_prefix,
                        mizen |-> text_prefix \o <<"U+3053">>,   \* こ
                        renyou |-> text_prefix \o <<"U+304D">>,   \* き
                        base |-> text_prefix \o <<"U+304F">>],   \* く
              phoneme |-> [prefix |-> phoneme_prefix,
                           mizen |-> phoneme_prefix \o <<"k", "o">>,
                           renyou |-> phoneme_prefix \o <<"k", "i">>,
                           base |-> phoneme_prefix \o <<"k", "U+026F">>]]   \* kɯ
    ELSE IF verb_type = <<"i", "c", "h", "i", "d", "a", "n">>
    THEN [text |-> [stem |-> DropLast(word, 1)],
          phoneme |-> [stem |-> DropLast(phoneme, 2)]]
    ELSE IF IsGodanLike(verb_type)
    THEN [text |-> [stem |-> DropLast(word, 1), ending |-> CharFromEnd(word, 1)],
          phoneme |->
              IF EndsWith(phoneme, <<"U+026F">>)   \* ɯ
              THEN IF Len(phoneme) >= 2
                   THEN [stem |-> DropLast(phoneme, 2),
                         ending |-> CharFromEnd(phoneme, 2)]
                   ELSE [stem |-> << >>, ending |-> <<"U+026F">>]   \* ɯ
              ELSE [stem |-> IF Len(phoneme) > 1 THEN DropLast(phoneme, 1) ELSE << >>,
                    ending |-> IF phoneme # << >> THEN CharFromEnd(phoneme, 1) ELSE << >>]]
    ELSE [text |-> [stem |-> DropLast(word, 1)],
          phoneme |-> [stem |-> IF EndsWith(phoneme, <<"U+027E", "U+026F">>)   \* ɾɯ
                                THEN DropLast(phoneme, 2)
                                ELSE DropLast(phoneme, 1)]]

\* the forms of an ichidan verb, as <<text, phoneme>> in the order assigned
IchidanForms(t, p) ==
    << <<t \o <<"U+305F">>, p \o <<"t", "a">>>>,   \* た
       <<t \o <<"U+3066">>, p \o <<"t", "e">>>>,   \* て
       <<t \o <<"U+306A", "U+3044">>, p \o <<"n", "a", "i">>>>,   \* ない
       <<t \o <<"U+306A", "U+304B", "U+3063", "U+305F">>, p \o <<"n", "a", "k", "a", "t", "t", "a">>>>,   \* なかった
       <<t \o <<"U+307E", "U+3059">>, p \o <<"m", "a", "s", "U+026F">>>>,   \* ます masɯ
       <<t \o <<"U+307E", "U+3057", "U+305F">>, p \o <<"m", "a", "U+0255", "i", "t", "a">>>>,   \* ました maɕita
       <<t \o <<"U+307E", "U+305B", "U+3093">>, p \o <<"m", "a", "s", "e", "U+0274">>>>,   \* ません maseɴ
       <<t \o <<"U+307E", "U+305B", "U+3093", "U+3067", "U+3057", "U+305F">>, p \o <<"m", "a", "s", "e", "U+0274", "d", "e", "U+0255", "i", "t", "a">>>>,   \* ませんでした maseɴdeɕita
       <<t \o <<"U+308C", "U+3070">>, p \o <<"U+027E", "e", "b", "a">>>>,   \* れば ɾeba
       <<t \o <<"U+3088", "U+3046">>, p \o <<"j", "o", "U+026F">>>>,   \* よう joɯ
       <<t \o <<"U+308D">>, p \o <<"U+027E", "o">>>>,   \* ろ ɾo
       <<t \o <<"U+3088">>, p \o <<"j", "o">>>>,   \* よ
       <<t \o <<"U+3089", "U+308C", "U+308B">>, p \o <<"U+027E", "a", "U+027E", "e", "U+027E", "U+026F">>>>,   \* られる ɾaɾeɾɯ
       <<t \o <<"U+3055", "U+305B", "U+308B">>, p \o <<"s", "a", "s", "e", "U+027E", "U+026F">>>>,   \* させる saseɾɯ
       <<t \o <<"U+305F", "U+3089">>, p \o <<"t", "a", "U+027E", "a">>>> >>   \* たら taɾa

a_row_map ==
    "U+304F" :> <<<<"U+304B">>, <<"k", "a">>>> @@ "U+3050" :> <<<<"U+304C">>, <<"g", "a">>>> @@ "U+3059" :> <<<<"U+3055">>, <<"s", "a">>>> @@   \* く か ぐ が す さ
    "U+3064" :> <<<<"U+305F">>, <<"t", "a">>>> @@ "U+306C" :> <<<<"U+306A">>, <<"n", "a">>>> @@ "U+3076" :> <<<<"U+3070">>, <<"b", "a">>>> @@   \* つ た ぬ な ぶ ば
    "U+3080" :> <<<<"U+307E">>, <<"m", "a">>>> @@ "U+308B" :> <<<<"U+3089">>, <<"U+027E", "a">>>> @@ "U+3046" :> <<<<"U+308F">>, <<"U+0270", "a">>>>   \* む ま る ら ɾa う わ ɰa

i_row_map ==
    "U+304F" :> <<<<"U+304D">>, <<"k", "i">>>> @@ "U+3050" :> <<<<"U+304E">>, <<"g", "i">>>> @@ "U+3059" :> <<<<"U+3057">>, <<"U+0255", "i">>>> @@   \* く き ぐ ぎ す し ɕi
    "U+3064" :> <<<<"U+3061">>, <<"U+02A8", "i">>>> @@ "U+306C" :> <<<<"U+306B">>, <<"n", "i">>>> @@ "U+3076" :> <<<<"U+3073">>, <<"b", "i">>>> @@   \* つ ち ʨi ぬ に ぶ び
    "U+3080" :> <<<<"U+307F">>, <<"m", "i">>>> @@ "U+308B" :> <<<<"U+308A">>, <<"U+027E", "i">>>> @@ "U+3046" :> <<<<"U+3044">>, <<"i">>>>   \* む み る り ɾi う い

e_row_map ==
    "U+304F" :> <<<<"U+3051">>, <<"k", "e">>>> @@ "U+3050" :> <<<<"U+3052">>, <<"g", "e">>>> @@ "U+3059" :> <<<<"U+305B">>, <<"s", "e">>>> @@   \* く け ぐ げ す せ
    "U+3064" :> <<<<"U+3066">>, <<"t", "e">>>> @@ "U+306C" :> <<<<"U+306D">>, <<"n", "e">>>> @@ "U+3076" :> <<<<"U+3079">>, <<"b", "e">>>> @@   \* つ て ぬ ね ぶ べ
    "U+3080" :> <<<<"U+3081">>, <<"m", "e">>>> @@ "U+308B" :> <<<<"U+308C">>, <<"U+027E", "e">>>> @@ "U+3046" :> <<<<"U+3048">>, <<"e">>>>   \* む め る れ ɾe う え

o_row_map ==
    "U+304F" :> <<<<"U+3053">>, <<"k", "o">>>> @@ "U+3050" :> <<<<"U+3054">>, <<"g", "o">>>> @@ "U+3059" :> <<<<"U+305D">>, <<"s", "o">>>> @@   \* く こ ぐ ご す そ
    "U+3064" :> <<<<"U+3068">>, <<"t", "o">>>> @@ "U+306C" :> <<<<"U+306E">>, <<"n", "o">>>> @@ "U+3076" :> <<<<"U+307C">>, <<"b", "o">>>> @@   \* つ と ぬ の ぶ ぼ
    "U+3080" :> <<<<"U+3082">>, <<"m", "o">>>> @@ "U+308B" :> <<<<"U+308D">>, <<"U+027E", "o">>>> @@ "U+3046" :> <<<<"U+304A">>, <<"o">>>>   \* む も る ろ ɾo う お

\* the て/た forms of the godan branch
GodanTeTaForms(verb_type, t, te, p, pe) ==
    IF verb_type = <<"i", "k", "u">>
    THEN << <<t \o <<"U+3063", "U+305F">>, p \o <<"i", "t", "U+02D0", "a">>>>,   \* った itːa
            <<t \o <<"U+3063", "U+3066">>, p \o <<"i", "t", "U+02D0", "e">>>>,   \* って itːe
            <<t \o <<"U+3063", "U+305F", "U+3089">>, p \o <<"i", "t", "U+02D0", "a", "U+027E", "a">>>> >>   \* ったら itːaɾa
    ELSE IF InTable(te, GODAN_TE_TA_TEXT) /\ InTable(pe, GODAN_TE_TA_MAP)
    THEN LET tx == GODAN_TE_TA_TEXT[te[1]]
             ph == GODAN_TE_TA_MAP[pe[1]]
         IN  << <<t \o tx[1] \o tx[3], p \o ph[1] \o ph[3]>>,
                <<t \o tx[1] \o tx[2], p \o ph[1] \o ph[2]>>,
                <<t \o tx[1] \o tx[3] \o <<"U+3089">>, p \o ph[1] \o ph[3] \o <<"U+027E", "a">>>> >>   \* ら ɾa
    ELSE << >>

\* the negative, negative past and causative of the godan branch
GodanNegativeForms(verb_type, t, te, p) ==
    IF verb_type = <<"a", "r", "u">>
    THEN << <<<<"U+306A", "U+3044">>, <<"n", "a", "i">>>>, <<<<"U+306A", "U+304B", "U+3063", "U+305F">>, <<"n", "a", "k", "a", "t", "t", "a">>>> >>   \* ない なかった
    ELSE IF InTable(te, a_row_map)
    THEN LET a == a_row_map[te[1]]
         IN  << <<t \o a[1] \o <<"U+306A", "U+3044">>, p \o a[2] \o <<"n", "a", "i">>>>,   \* ない
                <<t \o a[1] \o <<"U+306A", "U+304B", "U+3063", "U+305F">>, p \o a[2] \o <<"n", "a", "k", "a", "t", "t", "a">>>>,   \* なかった
                <<t \o a[1] \o <<"U+305B", "U+308B">>, p \o a[2] \o <<"s", "e", "U+027E", "U+026F">>>> >>   \* せる seɾɯ
    ELSE << >>

\* the polite forms of the godan branch
GodanPoliteForms(t, te, p) ==
    IF InTable(te, i_row_map)
    THEN LET i == i_row_map[te[1]]
         IN  << <<t \o i[1] \o <<"U+307E", "U+3059">>, p \o i[2] \o <<"m", "a", "s", "U+026F">>>>,   \* ます masɯ
                <<t \o i[1] \o <<"U+307E", "U+3057", "U+305F">>, p \o i[2] \o <<"m", "a", "U+0255", "i", "t", "a">>>>,   \* ました maɕita
                <<t \o i[1] \o <<"U+307E", "U+305B", "U+3093">>, p \o i[2] \o <<"m", "a", "s", "e", "U+0274">>>>,   \* ません maseɴ
                <<t \o i[1] \o <<"U+307E", "U+305B", "U+3093", "U+3067", "U+3057", "U+305F">>, p \o i[2] \o <<"m", "a", "s", "e", "U+0274", "d", "e", "U+0255", "i", "t", "a">>>> >>   \* ませんでした maseɴdeɕita
    ELSE << >>

\* the conditional, imperative and potential of the godan branch
GodanConditionalForms(t, te, p) ==
    IF InTable(te, e_row_map)
    THEN LET e == e_row_map[te[1]]
         IN  << <<t \o e[1] \o <<"U+3070">>, p \o e[2] \o <<"b", "a">>>>,   \* ば
                <<t \o e[1], p \o e[2]>>,
                <<t \o e[1] \o <<"U+308B">>, p \o e[2] \o <<"U+027E", "U+026F">>>> >>   \* る ɾɯ
    ELSE << >>

\* the passive of the godan branch
GodanPassiveForms(t, te, p) ==
    IF InTable(te, a_row_map)
    THEN LET a == a_row_map[te[1]]
         IN  << <<t \o a[1] \o <<"U+308C", "U+308B">>, p \o a[2] \o <<"U+027E", "e", "U+027E", "U+026F">>>> >>   \* れる ɾeɾɯ
    ELSE << >>

\* the volitional of the godan branch
GodanVolitionalForms(t, te, p) ==
    IF InTable(te, o_row_map)
    THEN LET o == o_row_map[te[1]]
         IN  << <<t \o o[1] \o <<"U+3046">>, p \o o[2] \o <<"U+026F">>>> >>   \* う ɯ
    ELSE << >>

GodanForms(verb_type, stems) ==
    LET t == stems.text.stem
        te == stems.text.ending
        p == stems.phoneme.stem
        pe == stems.phoneme.ending
    IN  GodanTeTaForms(verb_type, t, te, p, pe)
            \o GodanNegativeForms(verb_type, t, te, p)
            \o GodanPoliteForms(t, te, p)
            \o GodanConditionalForms(t, te, p)
            \o GodanPassiveForms(t, te, p)
            \o GodanVolitionalForms(t, te, p)

\* the forms of する, after the prefix of a compound (empty for する itself)
SuruForms(t, p) ==
    << <<t \o <<"U+3057", "U+305F">>, p \o <<"U+0255", "i", "t", "a">>>>,   \* した ɕita
       <<t \o <<"U+3057", "U+3066">>, p \o <<"U+0255", "i", "t", "e">>>>,   \* して ɕite
       <<t \o <<"U+3057", "U+306A", "U+3044">>, p \o <<"U+0255", "i", "n", "a", "i">>>>,   \* しない ɕinai
       <<t \o <<"U+3057", "U+306A", "U+304B", "U+3063", "U+305F">>, p \o <<"U+0255", "i", "n", "a", "k", "a", "t", "t", "a">>>>,   \* しなかった ɕinakatta
       <<t \o <<"U+3057", "U+307E", "U+3059">>, p \o <<"U+0255", "i", "m", "a", "s", "U+026F">>>>,   \* します ɕimasɯ
       <<t \o <<"U+3057", "U+307E", "U+3057", "U+305F">>, p \o <<"U+0255", "i", "m", "a", "U+0255", "i", "t", "a">>>>,   \* しました ɕimaɕita
       <<t \o <<"U+3057", "U+307E", "U+305B", "U+3093">>, p \o <<"U+0255", "i", "m", "a", "s", "e", "U+0274">>>>,   \* しません ɕimaseɴ
       <<t \o <<"U+3057", "U+307E", "U+305B", "U+3093", "U+3067", "U+3057", "U+305F">>, p \o <<"U+0255", "i", "m", "a", "s", "e", "U+0274", "d", "e", "U+0255", "i", "t", "a">>>>,   \* しませんでした ɕimaseɴdeɕita
       <<t \o <<"U+3059", "U+308C", "U+3070">>, p \o <<"s", "U+026F", "U+027E", "e", "b", "a">>>>,   \* すれば sɯɾeba
       <<t \o <<"U+3057", "U+3088", "U+3046">>, p \o <<"U+0255", "i", "j", "o", "U+026F">>>>,   \* しよう ɕijoɯ
       <<t \o <<"U+3057", "U+308D">>, p \o <<"U+0255", "i", "U+027E", "o">>>>,   \* しろ ɕiɾo
       <<t \o <<"U+305B", "U+3088">>, p \o <<"s", "e", "j", "o">>>>,   \* せよ
       <<t \o <<"U+3067", "U+304D", "U+308B">>, p \o <<"d", "e", "k", "i", "U+027E", "U+026F">>>>,   \* できる dekiɾɯ
       <<t \o <<"U+3055", "U+308C", "U+308B">>, p \o <<"s", "a", "U+027E", "e", "U+027E", "U+026F">>>>,   \* される saɾeɾɯ
       <<t \o <<"U+3055", "U+305B", "U+308B">>, p \o <<"s", "a", "s", "e", "U+027E", "U+026F">>>>,   \* させる saseɾɯ
       <<t \o <<"U+3057", "U+305F", "U+3089">>, p \o <<"U+0255", "i", "t", "a", "U+027E", "a">>>> >>   \* したら ɕitaɾa

\* the forms of 来る, after the prefix of a compound (empty for 来る itself)
KuruForms(t, p) ==
    << <<t \o <<"U+6765", "U+305F">>, p \o <<"k", "i", "t", "a">>>>,   \* 来た
       <<t \o <<"U+304D", "U+305F">>, p \o <<"k", "i", "t", "a">>>>,   \* きた
       <<t \o <<"U+6765", "U+3066">>, p \o <<"k", "i", "t", "e">>>>,   \* 来て
       <<t \o <<"U+304D", "U+3066">>, p \o <<"k", "i", "t", "e">>>>,   \* きて
       <<t \o <<"U+6765", "U+306A", "U+3044">>, p \o <<"k", "o", "n", "a", "i">>>>,   \* 来ない
       <<t \o <<"U+3053", "U+306A", "U+3044">>, p \o <<"k", "o", "n", "a", "i">>>>,   \* こない
       <<t \o <<"U+6765", "U+306A", "U+304B", "U+3063", "U+305F">>, p \o <<"k", "o", "n", "a", "k", "a", "t", "t", "a">>>>,   \* 来なかった
       <<t \o <<"U+3053", "U+306A", "U+304B", "U+3063", "U+305F">>, p \o <<"k", "o", "n", "a", "k", "a", "t", "t", "a">>>>,   \* こなかった
       <<t \o <<"U+6765", "U+307E", "U+3059">>, p \o <<"k", "i", "m", "a", "s", "U+026F">>>>,   \* 来ます kimasɯ
       <<t \o <<"U+304D", "U+307E", "U+3059">>, p \o <<"k", "i", "m", "a", "s", "U+026F">>>>,   \* きます kimasɯ
       <<t \o <<"U+6765", "U+307E", "U+3057", "U+305F">>, p \o <<"k", "i", "m", "a", "U+0255", "i", "t", "a">>>>,   \* 来ました kimaɕita
       <<t \o <<"U+304D", "U+307E", "U+3057", "U+305F">>, p \o <<"k", "i", "m", "a", "U+0255", "i", "t", "a">>>>,   \* きました kimaɕita
       <<t \o <<"U+6765", "U+307E", "U+305B", "U+3093">>, p \o <<"k", "i", "m", "a", "s", "e", "U+0274">>>>,   \* 来ません kimaseɴ
       <<t \o <<"U+304D", "U+307E", "U+305B", "U+3093">>, p \o <<"k", "i", "m", "a", "s", "e", "U+0274">>>>,   \* きません kimaseɴ
       <<t \o <<"U+6765", "U+307E", "U+305B", "U+3093", "U+3067", "U+3057", "U+305F">>, p \o <<"k", "i", "m", "a", "s", "e", "U+0274", "d", "e", "U+0255", "i", "t", "a">>>>,   \* 来ませんでした kimaseɴdeɕita
       <<t \o <<"U+304D", "U+307E", "U+305B", "U+3093", "U+3067", "U+3057", "U+305F">>, p \o <<"k", "i", "m", "a", "s", "e", "U+0274", "d", "e", "U+0255", "i", "t", "a">>>>,   \* きませんでした kimaseɴdeɕita
       <<t \o <<"U+6765", "U+308C", "U+3070">>, p \o <<"k", "U+026F", "U+027E", "e", "b", "a">>>>,   \* 来れば kɯɾeba
       <<t \o <<"U+304F", "U+308C", "U+3070">>, p \o <<"k", "U+026F", "U+027E", "e", "b", "a">>>>,   \* くれば kɯɾeba
       <<t \o <<"U+6765", "U+3088", "U+3046">>, p \o <<"k", "o", "j", "o", "U+026F">>>>,   \* 来よう kojoɯ
       <<t \o <<"U+3053", "U+3088", "U+3046">>, p \o <<"k", "o", "j", "o", "U+026F">>>>,   \* こよう kojoɯ
       <<t \o <<"U+6765", "U+3044">>, p \o <<"k", "o", "i">>>>,   \* 来い
       <<t \o <<"U+3053", "U+3044">>, p \o <<"k", "o", "i">>>>,   \* こい
       <<t \o <<"U+6765", "U+3089", "U+308C", "U+308B">>, p \o <<"k", "o", "U+027E", "a", "U+027E", "e", "U+027E", "U+026F">>>>,   \* 来られる koɾaɾeɾɯ
       <<t \o <<"U+3053", "U+3089", "U+308C", "U+308B">>, p \o <<"k", "o", "U+027E", "a", "U+027E", "e", "U+027E", "U+026F">>>>,   \* こられる koɾaɾeɾɯ
       <<t \o <<"U+6765", "U+3055", "U+305B", "U+308B">>, p \o <<"k", "i", "s", "a", "s", "e", "U+027E", "U+026F">>>>,   \* 来させる kisaseɾɯ
       <<t \o <<"U+3053", "U+3055", "U+305B", "U+308B">>, p \o <<"k", "o", "s", "a", "s", "e", "U+027E", "U+026F">>>>,   \* こさせる kosaseɾɯ
       <<t \o <<"U+6765", "U+305F", "U+3089">>, p \o <<"k", "i", "t", "a", "U+027E", "a">>>>,   \* 来たら kitaɾa
       <<t \o <<"U+304D", "U+305F", "U+3089">>, p \o <<"k", "i", "t", "a", "U+027E", "a">>>> >>   \* きたら kitaɾa

\* the dict {conjugated_text: conjugated_phoneme}
generate_conjugations(word, phoneme, verb_type) ==
    LET stems == get_verb_stems(word, phoneme, verb_type)
    IN  Assign(EmptyDict,
            IF verb_type = <<"i", "c", "h", "i", "d", "a", "n">>
            THEN IchidanForms(stems.text.stem, stems.phoneme.stem)
            ELSE IF IsGodanLike(verb_type) THEN GodanForms(verb_type, stems)
            ELSE IF verb_type = <<"s", "u", "r", "u">> THEN SuruForms(<< >>, << >>)
            ELSE IF verb_type = <<"k", "u", "r", "u">> THEN KuruForms(<< >>, << >>)
            ELSE IF verb_type = <<"s", "u", "r", "u", "_", "c", "o", "m", "p", "o", "u", "n", "d">>
            THEN SuruForms(stems.text.prefix, stems.phoneme.prefix)
            ELSE IF verb_type = <<"k", "u", "r", "u", "_", "c", "o", "m", "p", "o", "u", "n", "d">>
            THEN KuruForms(stems.text.prefix, stems.phoneme.prefix)
            ELSE << >>)


\* dictionary entries (word, phoneme) handed to process_verb_batch
VerbPool ==
    { <<<<"U+884C", "U+304F">>, <<"i", "k", "U+026F">>>>,   \* 行く ikɯ
      <<<<"U+3044", "U+304F">>, <<"i", "k", "U+026F">>>>,   \* いく ikɯ
      <<<<"U+66F8", "U+304F">>, <<"k", "a", "k", "U+026F">>>>,   \* 書く kakɯ
      <<<<"U+98DF", "U+3079", "U+308B">>, <<"t", "a", "b", "e", "U+027E", "U+026F">>>>,   \* 食べる tabeɾɯ
      <<<<"U+898B", "U+308B">>, <<"m", "i", "U+027E", "U+026F">>>>,   \* 見る miɾɯ
      <<<<"U+8D70", "U+308B">>, <<"h", "a", "U+0255", "i", "U+027E", "U+026F">>>>,   \* 走る haɕiɾɯ
      <<<<"U+53D6", "U+308B">>, <<"t", "o", "U+027E", "U+026F">>>>,   \* 取る toɾɯ
      <<<<"U+3059", "U+308B">>, <<"s", "U+026F", "U+027E", "U+026F">>>>,   \* する sɯɾɯ
      <<<<"U+6765", "U+308B">>, <<"k", "U+026F", "U+027E", "U+026F">>>>,   \* 来る kɯɾɯ
      <<<<"U+52C9", "U+5F37", "U+3059", "U+308B">>, <<"b", "e", "U+0274", "k", "j", "o", "U+02D0", "s", "U+026F", "U+027E", "U+026F">>>>,   \* 勉強する beɴkjoːsɯɾɯ
      <<<<"U+51FA", "U+3066", "U+304F", "U+308B">>, <<"d", "e", "t", "e", "k", "U+026F", "U+027E", "U+026F">>>>,   \* 出てくる detekɯɾɯ
      <<<<"U+3042", "U+308B">>, <<"a", "U+027E", "U+026F">>>>,   \* ある aɾɯ
      <<<<"U+732B">>, <<"n", "e", "k", "o">>>>,   \* 猫
      <<<<"U+308B">>, <<"U+027E", "U+026F">>>>,   \* る ɾɯ
      <<<<"U+5207", "U+308B">>, <<"k", "i", "U+027E", "U+026F">>>>,   \* 切る kiɾɯ
      <<<<"U+898B", "U+308B">>, <<"m", "i">>>> }   \* 見る

Batches == SeqsUpTo(VerbPool, MaxBatch)

\* for conj_word, conj_phoneme in conjugations.items():
\*     batch_conjugations[conj_word] = conj_phoneme
Update(d, conjugations) ==
    [x \in (DOMAIN d) \cup (DOMAIN conjugations) |->
        IF x \in DOMAIN conjugations THEN conjugations[x] ELSE d[x]]

\* process_verb_batch(entries_batch): the three accumulators start empty
BatchCall(b) ==
    /\ batch_pc = "idle"
    /\ batch_pc' = "batch"
    /\ entries_batch' = b
    /\ batch_pos' = 0
    /\ batch_conjugations' = EmptyDict
    /\ batch_conjugated_words' = {}
    /\ batch_verb_count' = 0
    /\ UNCHANGED <<conv, segm, call, pipe, disk, merge, steps>>
    /\ UNCHANGED callers

\* one iteration of `for word, phoneme in entries_batch:`
BatchStep ==
    /\ batch_pc = "batch"
    /\ batch_pos < Len(entries_batch)
    /\ LET word == entries_batch[batch_pos + 1][1]
           phoneme == entries_batch[batch_pos + 1][2]
           verb_type == detect_verb_type(word, phoneme)
       IN  IF verb_type # None /\ verb_type[1] # << >>
           THEN LET conjugations == generate_conjugations(word, phoneme, verb_type[1])
                IN  /\ batch_verb_count' = batch_verb_count + 1
                    /\ batch_conjugations' = Update(batch_conjugations, conjugations)
                    /\ batch_conjugated_words' =
                           batch_conjugated_words \cup DOMAIN conjugations
           ELSE UNCHANGED <<batch_conjugations, batch_conjugated_words,
                            batch_verb_count>>
    /\ batch_pos' = batch_pos + 1
    /\ UNCHANGED <<entries_batch, batch_pc>>
    /\ UNCHANGED <<conv, segm, call, pipe, disk, merge, steps>>
    /\ UNCHANGED callers

\* return (batch_conjugations, batch_conjugated_words, batch_verb_count)
BatchReturn ==
    /\ batch_pc = "batch"
    /\ batch_pos >= Len(entries_batch)
    /\ batch_pc' = "returned"
    /\ UNCHANGED <<entries_batch, batch_pos, batch_conjugations,
                   batch_conjugated_words, batch_verb_count>>
    /\ UNCHANGED <<conv, segm, call, pipe, disk, merge, steps>>
    /\ UNCHANGED callers

\* the worker takes its next batch
BatchNext ==
    /\ batch_pc = "returned"
    /\ batch_pc' = "idle"
    /\ entries_batch' = << >>
    /\ batch_pos' = 0
    /\ batch_conjugations' = EmptyDict
    /\ batch_conjugated_words' = {}
    /\ batch_verb_count' = 0
    /\ UNCHANGED <<conv, segm, call, pipe, disk, merge, steps>>
    /\ UNCHANGED callers

\* `if verb_type:` for the entry (word, phoneme)
IsVerbEntry(entry) ==
    LET verb_type == detect_verb_type(entry[1], entry[2])
    IN  verb_type # None /\ verb_type[1] # << >>

\* process_verb_batch(entries_batch) as a function of its argument, what
\* it returns when its loop is over: the forms of every verb of the batch
\* (a form that several verbs generate has the phoneme of the last of
\* them), the words generated, and the number of verbs
process_verb_batch(batch_entries) ==
    LET verbs == SelectSeq(batch_entries, IsVerbEntry)
        forms == [i \in DOMAIN verbs |->
                     generate_conjugations(verbs[i][1], verbs[i][2],
                         detect_verb_type(verbs[i][1], verbs[i][2])[1])]
        words == UNION {DOMAIN forms[i] : i \in DOMAIN verbs}
        last(x) == CHOOSE i \in DOMAIN verbs :
                       /\ x \in DOMAIN forms[i]
                       /\ \A j \in DOMAIN verbs : x \in DOMAIN forms[j] => j <= i
    IN  [batch_conjugations |-> [x \in words |-> forms[last(x)][x]],
         batch_conjugated_words |-> words,
         batch_verb_count |-> Len(verbs)]

----------------------------------------------------------------------------
(* The binary dictionary: build_binary_trie writes it,                     *)
(* PhonemeConverter.try_load_binary_format reads one.  A file is a         *)
(* sequence of bytes (0..255).                                             *)

\* struct.pack('<H', n), '<I', '<Q': little-endian, `width` bytes
RECURSIVE LittleEndian(_, _)
LittleEndian(n, width) ==
    IF width = 0 THEN << >>
    ELSE <<n % 256>> \o LittleEndian(n \div 256, width - 1)

\* struct.pack('<i', n): 4 bytes, two's complement
PackInt32(n) ==
    IF n >= 0 THEN LittleEndian(n, 4)
    ELSE LET m == (n + 2147483647) + 1     \* n + 2^31: the low 31 bits
         IN  <<m % 256, (m \div 256) % 256, (m \div 65536) % 256,
               (m \div 16777216) + 128>>

\* struct.unpack of a little-endian unsigned integer
RECURSIVE FromLittleEndian(_)
FromLittleEndian(bytes) ==
    IF bytes = << >> THEN 0
    ELSE Head(bytes) + 256 * FromLittleEndian(Tail(bytes))

\* the bytes write_varint appends: 7 bits at a time, low bits first, the
\* high bit set on every byte but the last
RECURSIVE write_varint(_)
write_varint(value) ==
    IF value >= 128 THEN <<(value % 128) + 128>> \o write_varint(value \div 128)
    ELSE <<value % 128>>

\* c.encode('utf-8') for one code point
Utf8Char(c) ==
    LET cp == Ord(c)
    IN  IF cp < 128 THEN <<cp>>
        ELSE IF cp < 2048 THEN <<192 + (cp \div 64), 128 + (cp % 64)>>
        ELSE IF cp < 65536
        THEN <<224 + (cp \div 4096), 128 + ((cp \div 64) % 64), 128 + (cp % 64)>>
        ELSE <<240 + (cp \div 262144), 128 + ((cp \div 4096) % 64),
               128 + ((cp \div 64) % 64), 128 + (cp % 64)>>

\* s.encode('utf-8')
RECURSIVE Utf8Encode(_)
Utf8Encode(s) ==
    IF s = << >> THEN << >> ELSE Utf8Char(Head(s)) \o Utf8Encode(Tail(s))

\* b'JPNT' and b'JPHO'
MagicJPNT == <<74, 80, 78, 84>>
MagicJPHO == <<74, 80, 72, 79>>

\* the code points of node p's children, ascending (sorted(node.children.items()))
ChildrenOf(trie, p) ==
    {q[Len(p) + 1] : q \in {r \in DOMAIN trie :
                               Len(r) = Len(p) + 1 /\ SubSeq(r, 1, Len(p)) = p}}

\* the elements of S in ascending order of their code points: each is
\* ranked by the number of elements below it, and the i-th of the list is
\* the one of rank i - 1
SortedByOrd(S) ==
    LET ranked == {<<Cardinality({d \in S : Ord(d) < Ord(c)}), c>> : c \in S}
    IN  SubSeq([i \in 1..Cardinality(S) |-> (CHOOSE pr \in ranked : pr[1] = i - 1)[2]],
               1, Cardinality(S))

\* the flags byte, and the varint count that follows it for 127 children
\* or more
NodeFlags(has_value, num_children) ==
    IF num_children < 127
    THEN <<(has_value + 2 * num_children) % 256>>
    ELSE <<has_value + 128>> \o write_varint(num_children)

\* the value of a node: varint length, then the UTF-8 bytes
NodeValue(value) ==
    IF value = None THEN << >>
    ELSE write_varint(Len(Utf8Encode(value[1]))) \o Utf8Encode(value[1])

\* serialize_trie_node(node, output, ...) where len(output) = node_offset:
\* the bytes it appends for node p and everything below it.  The node's
\* record comes first, then its 7-byte child entries, then the children's
\* subtrees in ascending code point order.
RECURSIVE serialize_trie_node(_, _, _)
RECURSIVE SerializeChildren(_, _, _, _, _, _)

\* the subtrees of the children kids[lo..hi] in ascending order, the first
\* of them written at `offset` and each where the one before it ended:
\* [offsets |-> where each child was written, bytes |-> ...]
SerializeChildren(trie, p, kids, lo, hi, offset) ==
    IF lo > hi THEN [offsets |-> << >>, bytes |-> << >>]
    ELSE IF lo = hi
    THEN [offsets |-> <<offset>>,
          bytes |-> serialize_trie_node(trie, p \o <<kids[lo]>>, offset)]
    ELSE LET mid == (lo + hi) \div 2
             first == SerializeChildren(trie, p, kids, lo, mid, offset)
             rest == SerializeChildren(trie, p, kids, mid + 1, hi,
                                       offset + Len(first.bytes))
         IN  [offsets |-> first.offsets \o rest.offsets,
              bytes |-> first.bytes \o rest.bytes]

\* an entry whose offset is counted from the start of the entry
ChildEntry_FromStart(code_point, child_offset, table_pos) ==
    <<code_point % 256, (code_point \div 256) % 256, (code_point \div 65536) % 256>>
        \o PackInt32(child_offset - table_pos)

\* the 7-byte entry written at table_pos: 3 bytes of code point, 4 bytes of
\* offset relative to the end of the entry
ChildEntry(code_point, child_offset, table_pos) ==
    <<code_point % 256, (code_point \div 256) % 256, (code_point \div 65536) % 256>>
        \o PackInt32(child_offset - (table_pos + 7))

\* the children table that starts at children_table_offset: the entries
\* of the children in ascending order, one after the other
ChildrenTable(kids, offsets, children_table_offset) ==
    [j \in 1..(7 * Len(kids)) |->
        LET k == ((j - 1) \div 7) + 1
        IN  ChildEntry(Ord(kids[k]), offsets[k],
                       children_table_offset + 7 * (k - 1))[((j - 1) % 7) + 1]]

serialize_trie_node(trie, p, node_offset) ==
    LET kids == SortedByOrd(ChildrenOf(trie, p))
        num_children == Len(kids)
        head == NodeFlags(IF trie[p] # None THEN 1 ELSE 0, num_children)
                    \o NodeValue(trie[p])
        children_table_offset == node_offset + Len(head)
        below == SerializeChildren(trie, p, kids, 1, num_children,
                     children_table_offset + 7 * num_children)
    IN  head \o ChildrenTable(kids, below.offsets, children_table_offset)
             \o below.bytes

\* root.insert(text, phoneme) for every entry of the dict.  The keys of a
\* dict are distinct, so the order of the loop does not show: each insert
\* adds the nodes of its key's prefixes and sets the value at the key.
InsertAll(trie, d, keys) ==
    [p \in DOMAIN trie \cup UNION {Prefixes(k) : k \in keys} |->
        IF p \in keys THEN Some(d[p])
        ELSE IF p \in DOMAIN trie THEN trie[p]
        ELSE None]

\* root.insert(word, "") for every word that is not a phoneme entry
RECURSIVE InsertWords(_, _)
InsertWords(trie, words) ==
    IF words = {} THEN trie
    ELSE LET w == CHOOSE x \in words : TRUE
         IN  InsertWords(Insert(trie, w, << >>), words \ {w})

\* the trie build_binary_trie serializes
BuilderTrie(dict, words) ==
    InsertWords(InsertAll(EmptyTrie, dict, DOMAIN dict), words \ DOMAIN dict)

\* the header build_binary_trie writes: magic, version 2.0, the two entry
\* counts, and root_offset = len(output) taken before the 8-byte field
TrieHeader(dict, words) ==
    LET output == MagicJPNT \o LittleEndian(2, 2) \o LittleEndian(0, 2)
                      \o LittleEndian(Cardinality(DOMAIN dict), 4)
                      \o LittleEndian(Cardinality(words), 4)
        root_offset == Len(output)
    IN  output \o LittleEndian(root_offset, 8)

\* the bytes build_binary_trie writes to output_path
build_binary_trie(dict, words) ==
    LET header == TrieHeader(dict, words)
    IN  header \o serialize_trie_node(BuilderTrie(dict, words), << >>, Len(header))

\* f.read(n) at position p: up to n bytes, fewer at the end of the file
Read(bytes, p, n) == Slice(bytes, p, p + n)

\* read_varint() at position p: [ok, value, pos]; ok is FALSE when the file
\* ends inside the varint (f.read(1)[0] raises IndexError).  The loop has no
\* bound on the number of bytes; a group of seven zero bits adds nothing.
RECURSIVE read_varint(_, _, _, _)
read_varint(bytes, p, value, shift) ==
    IF p >= Len(bytes) THEN [ok |-> FALSE, value |-> value, pos |-> p]
    ELSE LET byte == bytes[p + 1]
             v == IF byte % 128 = 0 THEN value
                  ELSE value + (byte % 128) * (2 ^ shift)
         IN  IF byte < 128 THEN [ok |-> TRUE, value |-> v, pos |-> p + 1]
             ELSE read_varint(bytes, p + 1, v, shift + 7)

IsContinuation(b) == b >= 128 /\ b <= 191

\* the character with code point cp
Chr(cp) == CHOOSE c \in CodePoints : Ord(c) = cp

\* bytes.decode('utf-8') from position p on: [ok, str]; ok is FALSE where
\* Python raises UnicodeDecodeError
RECURSIVE Utf8Decode(_, _)
Utf8Decode(bytes, p) ==
    IF p >= Len(bytes) THEN [ok |-> TRUE, str |-> << >>]
    ELSE LET b0 == bytes[p + 1]
             n == IF b0 < 128 THEN 1
                  ELSE IF b0 >= 194 /\ b0 <= 223 THEN 2
                  ELSE IF b0 >= 224 /\ b0 <= 239 THEN 3
                  ELSE IF b0 >= 240 /\ b0 <= 244 THEN 4
                  ELSE 0
             b(k) == bytes[p + 1 + k]
             wellFormed ==
                 /\ n > 0
                 /\ p + n <= Len(bytes)
                 /\ \A k \in 1..(n - 1) : IsContinuation(b(k))
                 /\ b0 = 224 => b(1) >= 160
                 /\ b0 = 237 => b(1) <= 159
                 /\ b0 = 240 => b(1) >= 144
                 /\ b0 = 244 => b(1) <= 143
             cp == IF n = 1 THEN b0
                   ELSE IF n = 2 THEN (b0 - 192) * 64 + (b(1) - 128)
                   ELSE IF n = 3
                   THEN (b0 - 224) * 4096 + (b(1) - 128) * 64 + (b(2) - 128)
                   ELSE (b0 - 240) * 262144 + (b(1) - 128) * 4096
                            + (b(2) - 128) * 64 + (b(3) - 128)
         IN  IF ~wellFormed THEN [ok |-> FALSE, str |-> << >>]
             ELSE LET rest == Utf8Decode(bytes, p + n)
                  IN  [ok |-> rest.ok, str |-> <<Chr(cp)>> \o rest.str]

\* one iteration of `for i in range(entry_count)` reading at position p:
\* [ok, key, value, pos]; ok is FALSE where an exception is raised
ReadEntry(bytes, p) ==
    LET key_len == read_varint(bytes, p, 0, 0)
        key_bytes == Read(bytes, key_len.pos, key_len.value)
        key == Utf8Decode(key_bytes, 0)
        value_len == read_varint(bytes, key_len.pos + Len(key_bytes), 0, 0)
        value_bytes == Read(bytes, value_len.pos, value_len.value)
        value == IF value_len.value > 0 THEN Utf8Decode(value_bytes, 0)
                 ELSE [ok |-> TRUE, str |-> << >>]
    IN  IF ~key_len.ok \/ ~key.ok \/ ~value_len.ok \/ ~value.ok
        THEN [ok |-> FALSE, key |-> << >>, value |-> << >>, pos |-> p]
        ELSE [ok |-> TRUE, key |-> key.str, value |-> value.str,
              pos |-> value_len.pos + Len(value_bytes)]

\* a varint of at least `width` bytes: the bytes of write_varint, followed
\* by groups of zero bits under a continuation chain when they are fewer
RECURSIVE PaddedVarint(_, _)
PaddedVarint(value, width) ==
    IF value >= 128 \/ width > 1
    THEN <<(value % 128) + 128>> \o PaddedVarint(value \div 128, width - 1)
    ELSE <<value % 128>>

\* a file in the layout try_load_binary_format reads: magic, version,
\* the entry count, then key and value of every entry, each after its
\* varint length
RECURSIVE FlatEntries(_, _)
FlatEntries(entries, width) ==
    IF entries = << >> THEN << >>
    ELSE LET key == Utf8Encode(Head(entries)[1])
             value == Utf8Encode(Head(entries)[2])
         IN  PaddedVarint(Len(key), width) \o key
                 \o PaddedVarint(Len(value), width) \o value
                 \o FlatEntries(Tail(entries), width)

FlatFile(version_major, width, count, entries) ==
    MagicJPHO \o LittleEndian(version_major, 2) \o LittleEndian(0, 2)
        \o LittleEndian(count, 4) \o FlatEntries(entries, width)

\* major versions and varint widths of the files: the loader's own 1 and a
\* version no reader knows; minimal varints and chains of six bytes
FlatVersions == {1, 9}
VarintWidths == {1, 6}


\* dictionaries, word sets and files of the model
CodecKeys == SeqsUpTo({"a", "U+3042"}, MaxKeyLen) \ {<< >>}   \* あ
CodecValues == {<<>>, <<"x", "y">>, <<"U+026F">>}   \* ɯ
CodecDicts ==
    UNION {[S -> CodecValues] :
              S \in {T \in SUBSET CodecKeys : Cardinality(T) <= MaxEntries}}
CodecWordSets == {T \in SUBSET CodecKeys : Cardinality(T) <= MaxWords}
FlatKeys == {<<"a">>, <<"U+3042">>}   \* あ

\* dictionaries whose root has many children: the n lowest code points as
\* one-character words, for child counts on both sides of 64 and of 127
WideCounts == {63, 64, 126, 127}
WideKeys(n) ==
    {<<c>> : c \in {x \in CodePoints :
                       Cardinality({y \in CodePoints : Ord(y) < Ord(x)}) < n}}
WideDicts == {[k \in WideKeys(n) |-> << >>] : n \in WideCounts}
FlatEntryLists == SeqsUpTo(FlatKeys \X CodecValues, MaxEntries)

\* dictionaries and word lists for reading a whole artifact back: keys of
\* one and two code points, one and three bytes wide, sharing prefixes
ArtifactKeys ==
    {<<"a">>, <<"U+3042">>, <<"a", "a">>, <<"a", "U+3042">>,
     <<"U+3042", "a">>, <<"U+3042", "U+3042">>}
ArtifactDicts ==
    UNION {[S -> CodecValues] :
              S \in {T \in SUBSET ArtifactKeys : Cardinality(T) <= MaxTrieEntries}}
ArtifactWordSets == {{}} \cup {{k} : k \in ArtifactKeys}

\* dictionary files whose entries repeat keys and share prefixes
RepeatKeys == {<<"a">>, <<"a", "a">>, <<"U+3042">>}
RepeatEntryLists == SeqsUpTo(RepeatKeys \X Phonemes, MaxFileEntries)

\* build_binary_trie(phoneme_dict, word_set, output_path) writes the file
BuildCall(d, w) ==
    /\ pc = "load"
    /\ file = None
    /\ phoneme_dict' = d
    /\ word_set' = w
    /\ file' = Some(build_binary_trie(d, w))
    /\ UNCHANGED <<fpos, to_read>>
    /\ UNCHANGED <<conv, segm, call, pipe, batch, merge, steps>>
    /\ UNCHANGED callers

\* a file in the loader's own layout is put at the path, whole or cut
\* short after `size` bytes
PutFlatFile(version_major, width, count, entries, size) ==
    /\ pc = "load"
    /\ file = None
    /\ size <= Len(FlatFile(version_major, width, count, entries))
    /\ file' = Some(SubSeq(FlatFile(version_major, width, count, entries), 1, size))
    /\ UNCHANGED <<phoneme_dict, word_set, fpos, to_read>>
    /\ UNCHANGED <<conv, segm, call, pipe, batch, merge, steps>>
    /\ UNCHANGED callers

TryLoadFailed == [op |-> "try_load", arg |-> file, value |-> FALSE]

\* try_load_binary_format, up to the loop: the file must exist, start with
\* b'JPHO' and hold the 4 version bytes and the 4 bytes of the entry count
TryLoadCall ==
    /\ pc = "load"
    /\ entry_count = 0
    /\ IF \/ file = None
          \/ Read(file[1], 0, 4) # MagicJPHO
          \/ Len(Read(file[1], 4, 4)) < 4
          \/ Len(Read(file[1], 8, 4)) < 4
       THEN /\ pc' = "returned"
            /\ ret' = TryLoadFailed
            /\ UNCHANGED <<fpos, to_read>>
       ELSE /\ pc' = "try_load"
            /\ fpos' = 12
            /\ to_read' = FromLittleEndian(Read(file[1], 8, 4))
            /\ ret' = NoReturn
    /\ UNCHANGED <<conv, segm, text, pos, result, current_text, pipe, batch,
                   phoneme_dict, word_set, file, merge, steps>>
    /\ UNCHANGED callers

\* one iteration of `for i in range(entry_count)`; an exception ends the
\* load with False and leaves what was inserted so far
TryLoadEntry ==
    /\ pc = "try_load"
    /\ to_read > 0
    /\ LET e == ReadEntry(file[1], fpos)
       IN  IF e.ok
           THEN /\ root' = Insert(root, e.key, e.value)
                /\ entry_count' = entry_count + 1
                /\ fpos' = e.pos
                /\ to_read' = to_read - 1
                /\ UNCHANGED <<pc, ret>>
           ELSE /\ pc' = "returned"
                /\ ret' = TryLoadFailed
                /\ UNCHANGED <<conv, fpos, to_read>>
    /\ UNCHANGED <<segm, text, pos, result, current_text, pipe, batch,
                   phoneme_dict, word_set, file, merge, steps>>
    /\ UNCHANGED callers

\* after the loop: the average per entry is printed (a division by
\* self.entry_count, which raises when no entry was read) and True returned
TryLoadReturn ==
    /\ pc = "try_load"
    /\ to_read = 0
    /\ pc' = "returned"
    /\ ret' = [op |-> "try_load", arg |-> file, value |-> entry_count # 0]
    /\ UNCHANGED <<conv, segm, text, pos, result, current_text, pipe, batch,
                   disk, merge, steps>>
    /\ UNCHANGED callers

----------------------------------------------------------------------------
(* Specifications *)

\* binary mode: one trie serves convert and segment
Next ==
    \/ \E k \in Keys, v \in Phonemes : LoadEntry(k, v)
    \/ LoadDone
    \/ \E t \in Texts : ConvertCall(t)
    \/ ConvertStep
    \/ ConvertReturn
    \/ \E t \in Texts : SegmentCall(t)
    \/ SegmentStep
    \/ SegmentReturn
    \/ NextInput

Spec == Init /\ [][Next]_vars

\* the segmenter alone, its trie built by load_from_file
NextSegment ==
    \/ (entry_count = 0 /\ LoadEntry(<<"a">>, <<"x", "y">>))
    \/ (entry_count >= 1 /\ \E l \in Lines : LoadWord(l))
    \/ WordsDone
    \/ \E t \in SegTexts : SegmentCall(t)
    \/ SegmentStep
    \/ SegmentReturn
    \/ NextInput

SpecSegment == Init /\ [][NextSegment]_vars

\* parse_furigana_hints alone
NextParse ==
    \/ (entry_count = 0 /\ LoadEntry(<<"a">>, <<"x", "y">>))
    \/ WordsDone
    \/ \E t \in HintTexts : ParseCall(t)
    \/ ParseStep
    \/ ParseReturn
    \/ NextInput

SpecParse == Init /\ [][NextParse]_vars

\* the whole pipeline on one shared trie: segmentation, then conversion
NextPipeline ==
    \/ \E k \in PipeKeys, v \in Phonemes : LoadEntry(k, v)
    \/ LoadDone
    \/ \E t \in PipeTexts : CwsCall(t)
    \/ CwsStep
    \/ CwsReturn
    \/ \E t \in PipeTexts : CdwsCall(t)
    \/ CdwsStep
    \/ CdwsReturn
    \/ NextInput

SpecPipeline == Init /\ [][NextPipeline]_vars

\* every query of the runtime on one loaded trie, in any order
NextQueries ==
    \/ \E k \in QueryKeys, v \in Phonemes : LoadEntry(k, v)
    \/ LoadDone
    \/ \E t \in QueryTexts : ConvertCall(t)
    \/ ConvertStep
    \/ ConvertReturn
    \/ \E t \in QueryTexts : ConvertDetailedCall(t)
    \/ ConvertDetailedStep
    \/ ConvertDetailedReturn
    \/ \E t \in QueryTexts : SegmentCall(t)
    \/ SegmentStep
    \/ SegmentReturn
    \/ \E t \in QueryTexts : CwsCall(t)
    \/ CwsStep
    \/ CwsReturn
    \/ \E t \in QueryTexts : CdwsCall(t)
    \/ CdwsStep
    \/ CdwsReturn
    \/ NextInput

SpecQueries == Init /\ [][NextQueries]_vars

\* several callers on one loaded trie: their calls of the five queries
\* interleave, one loop iteration at a time
NextCallers ==
    \/ \E k \in QueryKeys, v \in Phonemes : LoadEntry(k, v)
    \/ LoadDone
    \/ \E t \in CallerTexts : ConvertCall(t)
    \/ ConvertStep
    \/ ConvertReturn
    \/ \E t \in CallerTexts : ConvertDetailedCall(t)
    \/ ConvertDetailedStep
    \/ ConvertDetailedReturn
    \/ \E t \in CallerTexts : SegmentCall(t)
    \/ SegmentStep
    \/ SegmentReturn
    \/ \E t \in CallerTexts : CwsCall(t)
    \/ CwsStep
    \/ CwsReturn
    \/ \E t \in CallerTexts : CdwsCall(t)
    \/ CdwsStep
    \/ CdwsReturn
    \/ NextInput
    \/ \E c \in Callers : Switch(c)

SpecCallers == Init /\ [][NextCallers]_vars

\* the three matching loops on one loaded trie, each run to its return
NextMatcher ==
    \/ \E k \in QueryKeys, v \in Phonemes : LoadEntry(k, v)
    \/ LoadDone
    \/ \E t \in QueryTexts : ConvertCall(t)
    \/ ConvertStep
    \/ ConvertReturn
    \/ \E t \in QueryTexts : ConvertDetailedCall(t)
    \/ ConvertDetailedStep
    \/ ConvertDetailedReturn
    \/ \E t \in QueryTexts : SegmentCall(t)
    \/ SegmentStep
    \/ SegmentReturn
    \/ NextInput

\* a call that has started keeps running: the interpreter executes the
\* next iteration of a loop, and the return after it, without waiting
MatcherFairness ==
    /\ WF_vars(ConvertStep) /\ WF_vars(ConvertReturn)
    /\ WF_vars(ConvertDetailedStep) /\ WF_vars(ConvertDetailedReturn)
    /\ WF_vars(SegmentStep) /\ WF_vars(SegmentReturn)

SpecMatcher == Init /\ [][NextMatcher]_vars /\ MatcherFairness

\* the builder's conjugation pass over one batch after another
NextBuilder ==
    \/ \E b \in Batches : BatchCall(b)
    \/ BatchStep
    \/ BatchReturn
    \/ BatchNext

SpecBuilder == Init /\ [][NextBuilder]_vars

\* a dictionary file is written, then loaded by a new converter
NextCodec ==
    \/ \E d \in CodecDicts, w \in CodecWordSets : BuildCall(d, w)
    \/ \E d \in WideDicts : BuildCall(d, {})
    \/ \E n \in 0..MaxEntries, es \in FlatEntryLists :
          \E size \in 0..Len(FlatFile(1, 1, n, es)) : PutFlatFile(1, 1, n, es, size)
    \/ \E v \in FlatVersions, w \in VarintWidths, es \in FlatEntryLists :
          PutFlatFile(v, w, Len(es), es, Len(FlatFile(v, w, Len(es), es)))
    \/ TryLoadCall
    \/ TryLoadEntry
    \/ TryLoadReturn
    \/ NextInput

SpecCodec == Init /\ [][NextCodec]_vars

\* the builder writes an artifact; the runtime's loader is pointed at it
NextArtifact ==
    \/ \E d \in ArtifactDicts, w \in ArtifactWordSets : BuildCall(d, w)
    \/ \E d \in WideDicts : BuildCall(d, {})
    \/ TryLoadCall
    \/ NextInput

SpecArtifact == Init /\ [][NextArtifact]_vars

\* one insert after the other: the loader reads a file that may repeat
\* keys, the builder fills its trie from a dictionary and a word list
NextInserts ==
    \/ \E es \in RepeatEntryLists :
          PutFlatFile(1, 1, Len(es), es, Len(FlatFile(1, 1, Len(es), es)))
    \/ \E d \in ArtifactDicts, w \in ArtifactWordSets : BuildCall(d, w)
    \/ TryLoadCall
    \/ TryLoadEntry
    \/ TryLoadReturn
    \/ NextInput

SpecInserts == Init /\ [][NextInserts]_vars

----------------------------------------------------------------------------
(* fix_and_align_phonemes.py, main: the conjugation pass over the whole    *)
(* dictionary.  The entries are split into batches, a pool of workers runs *)
(* process_verb_batch on them, and main merges the results in the order    *)
(* the pool yields them (imap_unordered: any order).                       *)

\* entries of the source dictionary
MergePool ==
    { <<<<"U+3064", "U+304F", "U+308B">>, <<"U+02A6", "U+026F", "k", "U+026F", "U+027E", "U+026F">>>>,   \* つくる ʦɯkɯɾɯ
      <<<<"U+3064", "U+304D", "U+308B">>, <<"U+02A6", "U+026F", "k", "i", "U+027E", "U+026F">>>>,   \* つきる ʦɯkiɾɯ
      <<<<"U+3064", "U+304D", "U+305F">>, <<"U+02A6", "U+026F", "k", "i", "t", "a">>>>,   \* つきた ʦɯkita
      <<<<"U+732B">>, <<"n", "e", "k", "o">>>> }   \* 猫

\* list(data.items()) of a loaded dictionary: no word twice
EntryLists ==
    {es \in SeqsUpTo(MergePool, MaxDictEntries) :
        \A i, j \in 1..Len(es) : es[i][1] = es[j][1] => i = j}

\* the smallest batch main makes
MinBatchSize == 1000

\* str(n) for n >= 0
RECURSIVE Decimal(_)
Decimal(n) ==
    LET digit == <<"0", "1", "2", "3", "4", "5", "6", "7", "8", "9">>[(n % 10) + 1]
    IN  IF n < 10 THEN <<digit>> ELSE Decimal(n \div 10) \o <<digit>>

\* n further entries of a dictionary, no verbs among them: 猫1, 猫2, ...
Fillers(n) == [i \in 1..n |-> <<<<"U+732B">> \o Decimal(i), <<"x">>>>]

\* dictionaries of more entries than one batch takes: an entry of the pool,
\* as many others as fill the first batch, and a second entry of the pool,
\* which falls into the second batch
LargeEntryLists ==
    {<<e[1]>> \o Fillers(MinBatchSize - 1) \o <<e[2]>> :
        e \in {x \in MergePool \X MergePool : x[1][1] # x[2][1]}}

\* max(1, cpu_count() - 1)
Workers == 1..MaxWorkers

\* batches.append(all_entries[i:i + batch_size]) for i in range(0, total_entries, batch_size)
SplitBatches(entries, batch_size) ==
    [b \in 1..((Len(entries) + batch_size - 1) \div batch_size) |->
        Slice(entries, (b - 1) * batch_size, b * batch_size)]

\* a merge that lets the generated form replace the entry
MergeInto_Overwrite(d, conjugations) ==
    [x \in (DOMAIN d) \cup (DOMAIN conjugations) |->
        IF x \in DOMAIN conjugations THEN conjugations[x] ELSE d[x]]

\* for conj_word, conj_phoneme in batch_conjugations.items():
\*     if conj_word not in data: data[conj_word] = conj_phoneme
MergeInto(d, conjugations) ==
    [x \in (DOMAIN d) \cup (DOMAIN conjugations) |->
        IF x \in DOMAIN d THEN d[x] ELSE conjugations[x]]

\* BASIC_HIRAGANA.items(): the entries in the order of the table
BASIC_HIRAGANA ==
    << <<<<"U+3042">>, <<"a">>>>, <<<<"U+3044">>, <<"i">>>>, <<<<"U+3046">>, <<"U+026F">>>>, <<<<"U+3048">>, <<"e">>>>, <<<<"U+304A">>, <<"o">>>>,   \* あ い う え お
       <<<<"U+304B">>, <<"k", "a">>>>, <<<<"U+304D">>, <<"k", "i">>>>, <<<<"U+304F">>, <<"k", "U+026F">>>>, <<<<"U+3051">>, <<"k", "e">>>>, <<<<"U+3053">>, <<"k", "o">>>>,   \* か き く け こ
       <<<<"U+304C">>, <<"g", "a">>>>, <<<<"U+304E">>, <<"g", "i">>>>, <<<<"U+3050">>, <<"g", "U+026F">>>>, <<<<"U+3052">>, <<"g", "e">>>>, <<<<"U+3054">>, <<"g", "o">>>>,   \* が ぎ ぐ げ ご
       <<<<"U+3055">>, <<"s", "a">>>>, <<<<"U+3057">>, <<"U+0255", "i">>>>, <<<<"U+3059">>, <<"s", "U+026F">>>>, <<<<"U+305B">>, <<"s", "e">>>>, <<<<"U+305D">>, <<"s", "o">>>>,   \* さ し す せ そ
       <<<<"U+3056">>, <<"z", "a">>>>, <<<<"U+3058">>, <<"U+02A5", "i">>>>, <<<<"U+305A">>, <<"z", "U+026F">>>>, <<<<"U+305C">>, <<"z", "e">>>>, <<<<"U+305E">>, <<"z", "o">>>>,   \* ざ じ ず ぜ ぞ
       <<<<"U+305F">>, <<"t", "a">>>>, <<<<"U+3061">>, <<"U+02A8", "i">>>>, <<<<"U+3064">>, <<"U+02A6", "U+026F">>>>, <<<<"U+3066">>, <<"t", "e">>>>, <<<<"U+3068">>, <<"t", "o">>>>,   \* た ち つ て と
       <<<<"U+3060">>, <<"d", "a">>>>, <<<<"U+3062">>, <<"U+02A5", "i">>>>, <<<<"U+3065">>, <<"z", "U+026F">>>>, <<<<"U+3067">>, <<"d", "e">>>>, <<<<"U+3069">>, <<"d", "o">>>>,   \* だ ぢ づ で ど
       <<<<"U+306A">>, <<"n", "a">>>>, <<<<"U+306B">>, <<"n", "i">>>>, <<<<"U+306C">>, <<"n", "U+026F">>>>, <<<<"U+306D">>, <<"n", "e">>>>, <<<<"U+306E">>, <<"n", "o">>>>,   \* な に ぬ ね の
       <<<<"U+306F">>, <<"h", "a">>>>, <<<<"U+3072">>, <<"U+00E7", "i">>>>, <<<<"U+3075">>, <<"U+0278", "U+026F">>>>, <<<<"U+3078">>, <<"h", "e">>>>, <<<<"U+307B">>, <<"h", "o">>>>,   \* は ひ ふ へ ほ
       <<<<"U+3070">>, <<"b", "a">>>>, <<<<"U+3073">>, <<"b", "i">>>>, <<<<"U+3076">>, <<"b", "U+026F">>>>, <<<<"U+3079">>, <<"b", "e">>>>, <<<<"U+307C">>, <<"b", "o">>>>,   \* ば び ぶ べ ぼ
       <<<<"U+3071">>, <<"p", "a">>>>, <<<<"U+3074">>, <<"p", "i">>>>, <<<<"U+3077">>, <<"p", "U+026F">>>>, <<<<"U+307A">>, <<"p", "e">>>>, <<<<"U+307D">>, <<"p", "o">>>>,   \* ぱ ぴ ぷ ぺ ぽ
       <<<<"U+307E">>, <<"m", "a">>>>, <<<<"U+307F">>, <<"m", "i">>>>, <<<<"U+3080">>, <<"m", "U+026F">>>>, <<<<"U+3081">>, <<"m", "e">>>>, <<<<"U+3082">>, <<"m", "o">>>>,   \* ま み む め も
       <<<<"U+3084">>, <<"j", "a">>>>, <<<<"U+3086">>, <<"j", "U+026F">>>>, <<<<"U+3088">>, <<"j", "o">>>>, <<<<"U+3089">>, <<"U+027E", "a">>>>, <<<<"U+308A">>, <<"U+027E", "i">>>>,   \* や ゆ よ ら り
       <<<<"U+308B">>, <<"U+027E", "U+026F">>>>, <<<<"U+308C">>, <<"U+027E", "e">>>>, <<<<"U+308D">>, <<"U+027E", "o">>>>, <<<<"U+308F">>, <<"U+0270", "a">>>>, <<<<"U+3090">>, <<"i">>>>,   \* る れ ろ わ ゐ
       <<<<"U+3091">>, <<"e">>>>, <<<<"U+3092">>, <<"o">>>>, <<<<"U+3093">>, <<"U+0274">>>>, <<<<"U+3094">>, <<"v", "U+026F">>>>, <<<<"U+3041">>, <<"a">>>>,   \* ゑ を ん ゔ ぁ
       <<<<"U+3043">>, <<"i">>>>, <<<<"U+3045">>, <<"U+026F">>>>, <<<<"U+3047">>, <<"e">>>>, <<<<"U+3049">>, <<"o">>>>, <<<<"U+3083">>, <<"j", "a">>>>,   \* ぃ ぅ ぇ ぉ ゃ
       <<<<"U+3085">>, <<"j", "U+026F">>>>, <<<<"U+3087">>, <<"j", "o">>>>, <<<<"U+308E">>, <<"U+0270", "a">>>>, <<<<"U+3063">>, <<"U+0294">>>> >>   \* ゅ ょ ゎ っ

\* BASIC_KATAKANA.items()
BASIC_KATAKANA ==
    << <<<<"U+30A2">>, <<"a">>>>, <<<<"U+30A4">>, <<"i">>>>, <<<<"U+30A6">>, <<"U+026F">>>>, <<<<"U+30A8">>, <<"e">>>>, <<<<"U+30AA">>, <<"o">>>>,   \* ア イ ウ エ オ
       <<<<"U+30AB">>, <<"k", "a">>>>, <<<<"U+30AD">>, <<"k", "i">>>>, <<<<"U+30AF">>, <<"k", "U+026F">>>>, <<<<"U+30B1">>, <<"k", "e">>>>, <<<<"U+30B3">>, <<"k", "o">>>>,   \* カ キ ク ケ コ
       <<<<"U+30AC">>, <<"g", "a">>>>, <<<<"U+30AE">>, <<"g", "i">>>>, <<<<"U+30B0">>, <<"g", "U+026F">>>>, <<<<"U+30B2">>, <<"g", "e">>>>, <<<<"U+30B4">>, <<"g", "o">>>>,   \* ガ ギ グ ゲ ゴ
       <<<<"U+30B5">>, <<"s", "a">>>>, <<<<"U+30B7">>, <<"U+0255", "i">>>>, <<<<"U+30B9">>, <<"s", "U+026F">>>>, <<<<"U+30BB">>, <<"s", "e">>>>, <<<<"U+30BD">>, <<"s", "o">>>>,   \* サ シ ス セ ソ
       <<<<"U+30B6">>, <<"z", "a">>>>, <<<<"U+30B8">>, <<"U+02A5", "i">>>>, <<<<"U+30BA">>, <<"z", "U+026F">>>>, <<<<"U+30BC">>, <<"z", "e">>>>, <<<<"U+30BE">>, <<"z", "o">>>>,   \* ザ ジ ズ ゼ ゾ
       <<<<"U+30BF">>, <<"t", "a">>>>, <<<<"U+30C1">>, <<"U+02A8", "i">>>>, <<<<"U+30C4">>, <<"U+02A6", "U+026F">>>>, <<<<"U+30C6">>, <<"t", "e">>>>, <<<<"U+30C8">>, <<"t", "o">>>>,   \* タ チ ツ テ ト
       <<<<"U+30C0">>, <<"d", "a">>>>, <<<<"U+30C2">>, <<"U+02A5", "i">>>>, <<<<"U+30C5">>, <<"z", "U+026F">>>>, <<<<"U+30C7">>, <<"d", "e">>>>, <<<<"U+30C9">>, <<"d", "o">>>>,   \* ダ ヂ ヅ デ ド
       <<<<"U+30CA">>, <<"n", "a">>>>, <<<<"U+30CB">>, <<"n", "i">>>>, <<<<"U+30CC">>, <<"n", "U+026F">>>>, <<<<"U+30CD">>, <<"n", "e">>>>, <<<<"U+30CE">>, <<"n", "o">>>>,   \* ナ ニ ヌ ネ ノ
       <<<<"U+30CF">>, <<"h", "a">>>>, <<<<"U+30D2">>, <<"U+00E7", "i">>>>, <<<<"U+30D5">>, <<"U+0278", "U+026F">>>>, <<<<"U+30D8">>, <<"h", "e">>>>, <<<<"U+30DB">>, <<"h", "o">>>>,   \* ハ ヒ フ ヘ ホ
       <<<<"U+30D0">>, <<"b", "a">>>>, <<<<"U+30D3">>, <<"b", "i">>>>, <<<<"U+30D6">>, <<"b", "U+026F">>>>, <<<<"U+30D9">>, <<"b", "e">>>>, <<<<"U+30DC">>, <<"b", "o">>>>,   \* バ ビ ブ ベ ボ
       <<<<"U+30D1">>, <<"p", "a">>>>, <<<<"U+30D4">>, <<"p", "i">>>>, <<<<"U+30D7">>, <<"p", "U+026F">>>>, <<<<"U+30DA">>, <<"p", "e">>>>, <<<<"U+30DD">>, <<"p", "o">>>>,   \* パ ピ プ ペ ポ
       <<<<"U+30DE">>, <<"m", "a">>>>, <<<<"U+30DF">>, <<"m", "i">>>>, <<<<"U+30E0">>, <<"m", "U+026F">>>>, <<<<"U+30E1">>, <<"m", "e">>>>, <<<<"U+30E2">>, <<"m", "o">>>>,   \* マ ミ ム メ モ
       <<<<"U+30E4">>, <<"j", "a">>>>, <<<<"U+30E6">>, <<"j", "U+026F">>>>, <<<<"U+30E8">>, <<"j", "o">>>>, <<<<"U+30E9">>, <<"U+027E", "a">>>>, <<<<"U+30EA">>, <<"U+027E", "i">>>>,   \* ヤ ユ ヨ ラ リ
       <<<<"U+30EB">>, <<"U+027E", "U+026F">>>>, <<<<"U+30EC">>, <<"U+027E", "e">>>>, <<<<"U+30ED">>, <<"U+027E", "o">>>>, <<<<"U+30EF">>, <<"U+0270", "a">>>>, <<<<"U+30F0">>, <<"i">>>>,   \* ル レ ロ ワ ヰ
       <<<<"U+30F1">>, <<"e">>>>, <<<<"U+30F2">>, <<"o">>>>, <<<<"U+30F3">>, <<"U+0274">>>>, <<<<"U+30F4">>, <<"v", "U+026F">>>>, <<<<"U+30F5">>, <<"k", "a">>>>,   \* ヱ ヲ ン ヴ ヵ
       <<<<"U+30F6">>, <<"k", "e">>>>, <<<<"U+30A1">>, <<"a">>>>, <<<<"U+30A3">>, <<"i">>>>, <<<<"U+30A5">>, <<"U+026F">>>>, <<<<"U+30A7">>, <<"e">>>>,   \* ヶ ァ ィ ゥ ェ
       <<<<"U+30A9">>, <<"o">>>>, <<<<"U+30E3">>, <<"j", "a">>>>, <<<<"U+30E5">>, <<"j", "U+026F">>>>, <<<<"U+30E7">>, <<"j", "o">>>>, <<<<"U+30EE">>, <<"U+0270", "a">>>>,   \* ォ ャ ュ ョ ヮ
       <<<<"U+30C3">>, <<"U+0294">>>>, <<<<"U+30F7">>, <<"v", "a">>>>, <<<<"U+30F8">>, <<"v", "i">>>>, <<<<"U+30F9">>, <<"v", "e">>>>, <<<<"U+30FA">>, <<"v", "o">>>> >>   \* ッ ヷ ヸ ヹ ヺ

\* COMMON_KANJI.items()
COMMON_KANJI ==
    << <<<<"U+54B2">>, <<"s", "a", "k", "i">>>> >>   \* 咲

\* list({**a, **b}.items()) for the item lists of two dict displays: the
\* keys of a keep their place and take b's value where b has the key, the
\* other keys of b follow
MergedItems(a, b) ==
    [i \in DOMAIN a |->
        IF \E j \in DOMAIN b : b[j][1] = a[i][1]
        THEN b[CHOOSE j \in DOMAIN b : b[j][1] = a[i][1]]
        ELSE a[i]]
        \o SelectSeq(b, LAMBDA e : \A i \in DOMAIN a : a[i][1] # e[1])

\* {**BASIC_HIRAGANA, **BASIC_KATAKANA, **COMMON_KANJI}.items()
BasicItems == MergedItems(MergedItems(BASIC_HIRAGANA, BASIC_KATAKANA), COMMON_KANJI)

\* step 1 on the loaded entries: every basic character the dictionary
\* lacks is added after them, in the order of the tables
\* (if char not in data: data[char] = phoneme)
AddMissingBasics(entries) ==
    entries \o SelectSeq(BasicItems,
                   LAMBDA e : \A i \in DOMAIN entries : entries[i][1] # e[1])

\* batch_size = max(1000, total_entries // (num_workers * 4))
BatchSize(total_entries, workers) ==
    IF total_entries \div (workers * 4) > MinBatchSize
    THEN total_entries \div (workers * 4)
    ELSE MinBatchSize

\* main loads the dictionary (`entries` are the items of the JSON object,
\* in its order), adds the missing basic characters, and splits the
\* entries into batches for a pool of `workers` processes
\* (workers = max(1, cpu_count() - 1))
MainStart(entries, workers) ==
    /\ main_pc = "idle"
    /\ batch_pc = "idle"
    /\ main_pc' = "pool"
    /\ num_workers' = workers
    /\ LET items_after_step1 == AddMissingBasics(entries)
           batch_size == BatchSize(Len(items_after_step1), workers)
       IN  /\ data' = Assign(EmptyDict, items_after_step1)
           /\ all_entries' = items_after_step1
           /\ batches' = SplitBatches(items_after_step1, batch_size)
           /\ pending' = 1..Len(SplitBatches(items_after_step1, batch_size))
    /\ verb_count' = 0
    /\ conjugated_words' = {}
    /\ conjugation_count' = 0
    /\ skipped_count' = 0
    /\ completed_batches' = 0
    /\ UNCHANGED <<conv, segm, call, pipe, batch, disk, steps>>
    /\ UNCHANGED callers

\* a worker of the pool runs process_verb_batch on a batch whose result
\* main has not got yet, and the result arrives at main.  A pool of one
\* process works the batches off in their order; with more processes the
\* results arrive in any order (imap_unordered)
PoolCall(i) ==
    /\ main_pc = "pool"
    /\ batch_pc = "idle"
    /\ i \in pending
    /\ num_workers = 1 => \A j \in pending : i <= j
    /\ LET returned == process_verb_batch(batches[i])
       IN  /\ entries_batch' = batches[i]
           /\ batch_pos' = Len(batches[i])
           /\ batch_conjugations' = returned.batch_conjugations
           /\ batch_conjugated_words' = returned.batch_conjugated_words
           /\ batch_verb_count' = returned.batch_verb_count
    /\ batch_pc' = "returned"
    /\ UNCHANGED <<conv, segm, call, pipe, disk, merge, steps>>
    /\ UNCHANGED callers

\* one iteration of `for batch_result in pool.imap_unordered(...)`: the
\* result of the batch that has completed is merged into data
MergeResult ==
    /\ main_pc = "pool"
    /\ batch_pc = "returned"
    /\ \E i \in pending :
          /\ batches[i] = entries_batch
          /\ pending' = pending \ {i}
    /\ verb_count' = verb_count + batch_verb_count
    /\ conjugated_words' = conjugated_words \cup batch_conjugated_words
    /\ data' = MergeInto(data, batch_conjugations)
    /\ conjugation_count' =
           conjugation_count + Cardinality((DOMAIN batch_conjugations) \ (DOMAIN data))
    /\ skipped_count' =
           skipped_count + Cardinality((DOMAIN batch_conjugations) \cap (DOMAIN data))
    /\ completed_batches' = completed_batches + 1
    /\ batch_pc' = "idle"
    /\ entries_batch' = << >>
    /\ batch_pos' = 0
    /\ batch_conjugations' = EmptyDict
    /\ batch_conjugated_words' = {}
    /\ batch_verb_count' = 0
    /\ UNCHANGED <<main_pc, all_entries, batches, num_workers>>
    /\ UNCHANGED <<conv, segm, call, pipe, disk, steps>>
    /\ UNCHANGED callers

\* the pool has yielded every result
MergeDone ==
    /\ main_pc = "pool"
    /\ pending = {}
    /\ main_pc' = "merged"
    /\ UNCHANGED <<data, all_entries, batches, pending, verb_count,
                   conjugated_words, conjugation_count, skipped_count,
                   completed_batches, num_workers>>
    /\ UNCHANGED <<conv, segm, call, pipe, batch, disk, steps>>
    /\ UNCHANGED callers

\* the builder is run on another dictionary
MainNext ==
    /\ main_pc = "merged"
    /\ main_pc' = "idle"
    /\ data' = EmptyDict
    /\ all_entries' = << >>
    /\ batches' = << >>
    /\ pending' = {}
    /\ verb_count' = 0
    /\ conjugated_words' = {}
    /\ conjugation_count' = 0
    /\ skipped_count' = 0
    /\ completed_batches' = 0
    /\ num_workers' = 0
    /\ UNCHANGED <<conv, segm, call, pipe, batch, disk, steps>>
    /\ UNCHANGED callers

\* the conjugation pass of main, its batches completing in any order
NextMerge ==
    \/ \E es \in EntryLists \cup LargeEntryLists, w \in Workers : MainStart(es, w)
    \/ \E i \in DOMAIN batches : PoolCall(i)
    \/ MergeResult
    \/ MergeDone
    \/ MainNext

SpecMerge == Init /\ [][NextMerge]_vars

----------------------------------------------------------------------------
(* fix_and_align_phonemes.py, main after the conjugation pass: the word    *)
(* list is updated (step 1.6), the punctuation entries are removed (step   *)
(* 2), the values are converted to ligatures (step 3), and the dictionary  *)
(* and the word set are written as japanese.trie (step 6).                 *)

\* PUNCTUATION_TO_REMOVE, each character as a key of the dictionary
PUNCTUATION_TO_REMOVE ==
    { <<"U+3002">>, <<"U+3001">>, <<"U+FF01">>, <<"U+FF1F">>, <<"U+FF1A">>, <<"U+FF1B">>, <<"U+300C">>, <<"U+300D">>, <<"U+300E">>, <<"U+300F">>,   \* 。 、 ！ ？ ： ； 「 」 『 』
      <<"U+FF08">>, <<"U+FF09">>, <<"U+30FB">>, <<"U+3000">>, <<"U+301C">>, <<"U+309B">>, <<"U+309C">>,   \* （ ） ・ 　 〜 ゛ ゜
      <<".">>, <<",">>, <<"!">>, <<"?">>, <<":">>, <<";">>, <<"-">>, <<"U+2014">>, <<"U+2026">>,   \* — …
      <<"(">>, <<")">>, <<"[">>, <<"]">>, <<"U+0022">>, <<"'">>, <<" ">>, <<"\n">>, <<"\t">> }

\* sorted(LIGATURE_MAP.items(), key=lambda x: len(x[0]), reverse=True): the
\* six keys have length 2 and the sort is stable, so this is the order of
\* the dict
LIGATURE_MAP ==
    << <<<<"d", "U+0291">>, "U+02A5">>, <<<<"t", "U+0255">>, "U+02A8">>, <<<<"t", "s">>, "U+02A6">>,   \* dʑ ʥ tɕ ʨ ʦ
       <<<<"d", "z">>, "U+02A3">>, <<<<"t", "U+0283">>, "U+02A7">>, <<<<"d", "U+0292">>, "U+02A4">> >>   \* ʣ tʃ ʧ dʒ ʤ

\* s.replace(old, new) for a non-empty old: the occurrences are taken from
\* left to right and do not overlap
RECURSIVE Replace(_, _, _)
Replace(s, old, new) ==
    IF Len(s) < Len(old) THEN s
    ELSE IF SubSeq(s, 1, Len(old)) = old
    THEN <<new>> \o Replace(SubSeq(s, Len(old) + 1, Len(s)), old, new)
    ELSE <<Head(s)>> \o Replace(Tail(s), old, new)

\* the loop of convert_to_ligatures from the i-th pair of the table on
RECURSIVE ReplaceFrom(_, _, _)
ReplaceFrom(str, table, i) ==
    IF i > Len(table) THEN str
    ELSE ReplaceFrom(Replace(str, table[i][1], table[i][2]), table, i + 1)

\* a conversion that keeps the IPA ts
convert_to_ligatures_KeepTs(phoneme_str) ==
    ReplaceFrom(phoneme_str, SubSeq(LIGATURE_MAP, 1, 2) \o SubSeq(LIGATURE_MAP, 4, 6), 1)

convert_to_ligatures(phoneme_str) == ReplaceFrom(phoneme_str, LIGATURE_MAP, 1)

\* entries of original_ja_phonemes.json
StepsPool ==
    { <<<<"U+3002">>, <<"t", "s">>>>,   \* 。
      <<<<"U+898B", "U+308B">>, <<"m", "i", "U+027E", "U+026F">>>>,   \* 見る miɾɯ
      <<<<"U+732B">>, <<"d", "U+0291", "t", "s">>>> }   \* 猫 dʑts

StepsEntryLists ==
    {es \in SeqsUpTo(StepsPool, MaxDictEntries) :
        \A i, j \in 1..Len(es) : es[i][1] = es[j][1] => i = j}

\* the characters of the six sequences and one other
LigatureChars == <<"d", "t", "U+0291", "U+0255", "s", "z", "U+0283", "U+0292", "a">>   \* ʑ ɕ ʃ ʒ

RECURSIVE Pow(_, _)
Pow(b, n) == IF n = 0 THEN 1 ELSE b * Pow(b, n - 1)

\* the strings of n of these characters, in the order of their digits
TextsOfLen(n) ==
    [i \in 1..Pow(Len(LigatureChars), n) |->
        [q \in 1..n |->
            LigatureChars[(((i - 1) \div Pow(Len(LigatureChars), n - q))
                              % Len(LigatureChars)) + 1]]]

\* phoneme values: every string of up to n of the characters
RECURSIVE TextsUpTo(_)
TextsUpTo(n) == IF n = 0 THEN TextsOfLen(0) ELSE TextsUpTo(n - 1) \o TextsOfLen(n)

LigatureTexts == TextsUpTo(MaxPhonemeLen)

\* entries per dictionary when the phoneme values are spread over several
LigatureChunk == 200

\* dictionaries that hold every phoneme value between them: 猫1, 猫2, ...
\* with the values in their order
LigatureDictionaries ==
    {Slice([i \in DOMAIN LigatureTexts |->
               <<<<"U+732B">> \o Decimal(i), LigatureTexts[i]>>],
           (c - 1) * LigatureChunk, c * LigatureChunk) :
        c \in 1..((Len(LigatureTexts) + LigatureChunk - 1) \div LigatureChunk)}

\* original_ja_words.txt: absent, or its lines
WordFiles == {None} \cup {Some(ls) : ls \in SeqsUpTo({<<"U+3002">>, <<"U+3000", "U+732B", " ">>}, MaxWords)}   \* 。 猫

\* the word file as main finds it
PutWordsFile(f) ==
    /\ main_pc = "idle"
    /\ words_source' = f
    /\ UNCHANGED <<removed_punct, converted_count>>
    /\ UNCHANGED <<conv, segm, call, pipe, batch, disk, merge>>
    /\ UNCHANGED callers

\* step 1.6: word_set = the stripped non-empty lines of the word file, then
\* every conjugated form is added; without the file the step is skipped
UpdateWordList ==
    /\ main_pc = "merged"
    /\ main_pc' = "words"
    /\ IF words_source # None
       THEN word_set' =
                ({Strip(words_source[1][i]) : i \in 1..Len(words_source[1])} \ {<< >>})
                    \cup conjugated_words
       ELSE UNCHANGED word_set
    /\ UNCHANGED <<data, all_entries, batches, pending, verb_count,
                   conjugated_words, conjugation_count, skipped_count,
                   completed_batches, num_workers>>
    /\ UNCHANGED <<phoneme_dict, file, fpos, to_read>>
    /\ UNCHANGED <<conv, segm, call, pipe, batch, steps>>
    /\ UNCHANGED callers

\* step 2: for punct in PUNCTUATION_TO_REMOVE: if punct in data: del data[punct]
RemovePunctuation ==
    /\ main_pc = "words"
    /\ main_pc' = "punct"
    /\ data' = [k \in (DOMAIN data) \ PUNCTUATION_TO_REMOVE |-> data[k]]
    /\ removed_punct' = Cardinality((DOMAIN data) \cap PUNCTUATION_TO_REMOVE)
    /\ UNCHANGED <<all_entries, batches, pending, verb_count, conjugated_words,
                   conjugation_count, skipped_count, completed_batches,
                   num_workers>>
    /\ UNCHANGED <<words_source, converted_count>>
    /\ UNCHANGED <<conv, segm, call, pipe, batch, disk>>
    /\ UNCHANGED callers

\* step 3: data[key] = convert_to_ligatures(data[key]) for every key
ConvertLigatures ==
    /\ main_pc = "punct"
    /\ main_pc' = "ligatures"
    /\ data' = [k \in DOMAIN data |-> convert_to_ligatures(data[k])]
    /\ converted_count' =
           Cardinality({k \in DOMAIN data : data[k] # convert_to_ligatures(data[k])})
    /\ UNCHANGED <<all_entries, batches, pending, verb_count, conjugated_words,
                   conjugation_count, skipped_count, completed_batches,
                   num_workers>>
    /\ UNCHANGED <<words_source, removed_punct>>
    /\ UNCHANGED <<conv, segm, call, pipe, batch, disk>>
    /\ UNCHANGED callers

\* step 6: build_binary_trie(data, word_set, 'japanese.trie') when the word
\* file exists (steps 4 and 5 report on data and save it as it is)
BuildTrie ==
    /\ main_pc = "ligatures"
    /\ main_pc' = "built"
    /\ IF words_source # None
       THEN /\ phoneme_dict' = data
            /\ file' = Some(build_binary_trie(data, word_set))
       ELSE UNCHANGED <<phoneme_dict, file>>
    /\ UNCHANGED <<data, all_entries, batches, pending, verb_count,
                   conjugated_words, conjugation_count, skipped_count,
                   completed_batches, num_workers>>
    /\ UNCHANGED <<word_set, fpos, to_read>>
    /\ UNCHANGED <<conv, segm, call, pipe, batch, steps>>
    /\ UNCHANGED callers

\* main returns: its locals are gone, the japanese.trie it wrote stays on
\* disk
MainReturn ==
    /\ main_pc = "built"
    /\ main_pc' = "idle"
    /\ data' = EmptyDict
    /\ all_entries' = << >>
    /\ batches' = << >>
    /\ pending' = {}
    /\ verb_count' = 0
    /\ conjugated_words' = {}
    /\ conjugation_count' = 0
    /\ skipped_count' = 0
    /\ completed_batches' = 0
    /\ num_workers' = 0
    /\ phoneme_dict' = EmptyDict
    /\ word_set' = {}
    /\ removed_punct' = 0
    /\ converted_count' = 0
    /\ UNCHANGED <<words_source, file, fpos, to_read>>
    /\ UNCHANGED <<conv, segm, call, pipe, batch>>
    /\ UNCHANGED callers

\* the whole of main: the conjugation pass, then the steps after it
NextSteps ==
    \/ \E f \in WordFiles : PutWordsFile(f)
    \/ /\ file = None
       /\ \E es \in StepsEntryLists, w \in Workers : MainStart(es, w)
    \/ /\ file = None
       /\ words_source = None
       /\ \E es \in LigatureDictionaries : MainStart(es, 1)
    \/ \E i \in DOMAIN batches : PoolCall(i)
    \/ MergeResult
    \/ MergeDone
    \/ UpdateWordList
    \/ RemovePunctuation
    \/ ConvertLigatures
    \/ BuildTrie
    \/ MainReturn

SpecSteps == Init /\ [][NextSteps]_vars

----------------------------------------------------------------------------
(* What the claims speak of, stated without the matcher's own walk *)

\* the keys of a trie: the non-root nodes that carry a value
KeysOf(trie) == {k \in DOMAIN trie : k # << >> /\ trie[k] # None}

\* txt[p : p + len(k)] == k
MatchesAt(k, txt, p) == Slice(txt, p, p + Len(k)) = k

NoKeyMatchesAt(trie, txt, p) == \A k \in KeysOf(trie) : ~MatchesAt(k, txt, p)

IsProperPrefix(k1, k2) == Len(k1) < Len(k2) /\ SubSeq(k2, 1, Len(k1)) = k1

\* the longest key of the trie that matches at p (some key does)
LongestKeyAt(trie, txt, p) ==
    CHOOSE k \in KeysOf(trie) :
        /\ MatchesAt(k, txt, p)
        /\ \A k2 \in KeysOf(trie) : MatchesAt(k2, txt, p) => Len(k2) <= Len(k)

RECURSIVE RemoveWhitespace(_)
RemoveWhitespace(s) ==
    IF s = << >> THEN << >>
    ELSE IF Head(s) \in Whitespace THEN RemoveWhitespace(Tail(s))
    ELSE <<Head(s)>> \o RemoveWhitespace(Tail(s))

HasWhitespace(s) == \E i \in 1..Len(s) : s[i] \in Whitespace

----------------------------------------------------------------------------
(* C1 *)

C1_Step ==
    (/\ pc = "convert"
     /\ pos < Len(text)
     /\ ~NoKeyMatchesAt(root, text, pos)
     /\ root[LongestKeyAt(root, text, pos)] = Some(<< >>))
    => (/\ result' = Append(result, <<text[pos + 1]>>)
        /\ pos' = pos + 1)

\* C1 (as claimed): in convert, when the longest match at the cursor carries
\* the empty-string value, the match counts as no match: the code point at
\* the cursor is copied to the output and the cursor advances by one.
C1_EmptyValueIsNoMatch == [][C1_Step]_vars

----------------------------------------------------------------------------
(* C3 *)

C3_Step ==
    (/\ pc = "convert"
     /\ pos < Len(text)
     /\ NoKeyMatchesAt(root, text, pos))
    => (/\ result' = Append(result, <<text[pos + 1]>>)
        /\ pos' = pos + 1)

C3_Return ==
    (/\ ret.op = "convert"
     /\ \A p \in 0..(Len(ret.arg) - 1) : NoKeyMatchesAt(root, ret.arg, p))
    => (/\ ret.value = ret.arg
        /\ convert(root, ret.value) = ret.value)

\* C3: pass-through.  A code point at which no dictionary key matches is
\* appended to the output verbatim and the cursor moves by one; an input in
\* which no key matches anywhere is returned unchanged, and converting the
\* returned string again returns it again.
C3_PassThrough == [][C3_Step]_vars /\ []C3_Return

\* convert has returned an input of several code points, none covered by
\* the (non-empty) dictionary, unchanged
C3_Witness ==
    /\ pc = "returned"
    /\ ret.op = "convert"
    /\ KeysOf(root) # {}
    /\ Len(ret.arg) >= 2
    /\ \A p \in 0..(Len(ret.arg) - 1) : NoKeyMatchesAt(root, ret.arg, p)
    /\ ret.value = ret.arg

----------------------------------------------------------------------------
(* C4 *)

C4_ConvertStep ==
    (/\ pc = "convert"
     /\ pos < Len(text))
    => \A k1, k2 \in KeysOf(root) :
          (IsProperPrefix(k1, k2) /\ MatchesAt(k2, text, pos)) =>
             LET k == LongestKeyAt(root, text, pos)
             IN  /\ pos' - pos >= Len(k2)
                 /\ pos' = pos + Len(k)
                 /\ result' = Append(result, root[k][1])

C4_SegmentStep(cursors) ==
    (/\ pc = "segment"
     /\ pos < Len(text)
     /\ text[pos + 1] \in cursors)
    => \A k1, k2 \in KeysOf(seg_root) :
          (IsProperPrefix(k1, k2) /\ MatchesAt(k2, text, pos)) =>
             LET k == LongestKeyAt(seg_root, text, pos)
             IN  /\ pos' - pos >= Len(k2)
                 /\ pos' = pos + Len(k)
                 /\ result' = Append(result, k)

\* C4 (as claimed): longest match.  When the input at the cursor starts with
\* a key k2, convert and segment consume at least |k2| code points and use
\* the longest key matching there, never a proper prefix k1 of k2.
C4_LongestMatch ==
    [][C4_ConvertStep /\ C4_SegmentStep(SegAlphabet)]_vars

\* C4 (amended): the same, for segment at every cursor that is not on a
\* whitespace character (whitespace at the cursor is skipped before any
\* lookup, so a key that begins with whitespace is never matched there).
C4_LongestMatchAmended ==
    [][C4_ConvertStep /\ C4_SegmentStep(SegAlphabet \ Whitespace)]_vars

\* convert has just consumed k2 and emitted its value, where a proper
\* prefix k1 of k2 is a key too, with another value
C4_Witness ==
    /\ pc = "convert"
    /\ Len(result) = 1
    /\ \E k1, k2 \in KeysOf(root) :
          /\ IsProperPrefix(k1, k2)
          /\ root[k1] # root[k2]
          /\ MatchesAt(k2, text, 0)
          /\ pos = Len(k2)
          /\ result[1] = root[k2][1]

----------------------------------------------------------------------------
(* C8 *)

\* C8 (as claimed): for every input and every word trie, the concatenation
\* of the tokens segment returns is the input with its whitespace removed.
C8_TokensCoverInput ==
    ret.op = "segment" => Join(ret.value, << >>) = RemoveWhitespace(ret.arg)

\* C8 (amended): the same, for every word trie none of whose keys contains
\* a whitespace character.
C8_TokensCoverInputAmended ==
    (/\ ret.op = "segment"
     /\ \A k \in KeysOf(seg_root) : ~HasWhitespace(k))
    => Join(ret.value, << >>) = RemoveWhitespace(ret.arg)

\* segment has returned a dictionary word and a grammar run for an input
\* with whitespace in it
C8_Witness ==
    /\ pc = "returned"
    /\ ret.op = "segment"
    /\ \A k \in KeysOf(seg_root) : ~HasWhitespace(k)
    /\ HasWhitespace(ret.arg)
    /\ Len(ret.value) >= 2
    /\ \E i, j \in 1..Len(ret.value) :
          /\ ret.value[i] \in KeysOf(seg_root)
          /\ ret.value[j] \notin KeysOf(seg_root)

----------------------------------------------------------------------------
(* C5 *)

RECURSIVE RemoveClosedPairs(_, _)
\* txt[i:] without the closed bracket pairs (brackets and content), read
\* left to right
RemoveClosedPairs(txt, i) ==
    IF i >= Len(txt) THEN << >>
    ELSE IF txt[i + 1] \in Opening /\ Find(txt, Closing(txt[i + 1]), i + 1) # -1
    THEN RemoveClosedPairs(txt, Find(txt, Closing(txt[i + 1]), i + 1) + 1)
    ELSE <<txt[i + 1]>> \o RemoveClosedPairs(txt, i + 1)

HasUnclosedBracket(txt) ==
    \E i \in 0..(Len(txt) - 1) :
        txt[i + 1] \in Opening /\ Find(txt, Closing(txt[i + 1]), i + 1) = -1

SegmentTexts(segs) == [n \in 1..Len(segs) |-> segs[n].text]

\* C5 (as claimed): an unclosed opening bracket is kept as an ordinary
\* character and no text is lost: the texts of the returned segments,
\* concatenated, are the input without its closed bracket pairs.
C5_UnclosedBracketIsLiteral ==
    (ret.op = "parse" /\ HasUnclosedBracket(ret.arg))
    => Join(SegmentTexts(ret.value), << >>) = RemoveClosedPairs(ret.arg, 0)

----------------------------------------------------------------------------
(* C6 *)

RECURSIVE ClosedPairs(_, _, _)
\* the closed bracket pairs of txt read left to right from cursor i, each
\* with the text since the previous pair's closing bracket (or `start`)
ClosedPairs(txt, start, i) ==
    IF i >= Len(txt) THEN << >>
    ELSE IF txt[i + 1] \in Opening /\ Find(txt, Closing(txt[i + 1]), i + 1) # -1
    THEN LET close == Find(txt, Closing(txt[i + 1]), i + 1)
         IN  <<TextSegment(Slice(txt, start, i), Slice(txt, i + 1, close))>>
                 \o ClosedPairs(txt, close + 1, close + 1)
    ELSE ClosedPairs(txt, start, i + 1)

\* C6 (as claimed, for the pairs with a non-empty base text and a non-empty
\* hint): every closed bracket pair gives one segment whose text is all the
\* text since the previous pair (or the start of the input) and whose hint
\* is the bracketed content.
C6_FuriganaOverride ==
    ret.op = "parse" =>
        \A k \in 1..Len(ClosedPairs(ret.arg, 0, 0)) :
            LET pair == ClosedPairs(ret.arg, 0, 0)[k]
            IN  (pair.text # << >> /\ pair.furigana_hint # << >>) =>
                    \E n \in 1..Len(ret.value) : ret.value[n] = pair

----------------------------------------------------------------------------
(* C7 *)

WellSpaced(s) ==
    /\ s # << >> => (s[1] # " " /\ s[Len(s)] # " ")
    /\ \A n \in 1..(Len(s) - 1) : ~(s[n] = " " /\ s[n + 1] = " ")

HasBracket(s) == \E n \in 1..Len(s) : s[n] \in {"[", "]"}

ValuesOf(trie) == {trie[k][1] : k \in KeysOf(trie)}

\* C7 (as claimed, for inputs without furigana brackets): when no
\* dictionary value contains a space, the phoneme string returned by
\* convert_with_segmentation and convert_detailed_with_segmentation has no
\* leading space, no trailing space and no two consecutive spaces.
C7_OutputJoining ==
    (/\ ret.op \in {"cws", "cdws"}
     /\ ~HasBracket(ret.arg)
     /\ \A v \in ValuesOf(root) : ~HasWhitespace(v))
    => WellSpaced(IF ret.op = "cws" THEN ret.value ELSE ret.value.phonemes)

----------------------------------------------------------------------------
(* C2 *)

\* C2 (as claimed): the file build_binary_trie wrote is accepted by
\* try_load_binary_format, and the converter that loaded it converts every
\* text as a converter does whose trie holds the same entries.
C2_RoundTrip ==
    (/\ ret.op = "try_load"
     /\ ret.arg = Some(build_binary_trie(phoneme_dict, word_set)))
    => /\ ret.value = TRUE
       /\ \A t \in Texts :
              convert(root, t) = convert(BuilderTrie(phoneme_dict, word_set), t)

----------------------------------------------------------------------------
(* C9 *)

\* the batch holds the entry <<word, phoneme>>
InBatch(word, phoneme) ==
    \E n \in 1..Len(entries_batch) : entries_batch[n] = <<word, phoneme>>

\* the returned conjugations hold text with this phoneme string
Conjugated(text_form, phoneme_form) ==
    /\ text_form \in DOMAIN batch_conjugations
    /\ batch_conjugations[text_form] = phoneme_form

\* C9 (as claimed): from 行く→ikɯ the pass generates 行って→itːe and
\* 行った→itːa, and from いく→ikɯ it generates いって→itːe and いった→itːa.
C9_IkuTeTa ==
    /\ (batch_pc = "returned" /\ InBatch(<<"U+884C", "U+304F">>, <<"i", "k", "U+026F">>))   \* 行く ikɯ
       => (Conjugated(<<"U+884C", "U+3063", "U+3066">>, <<"i", "t", "U+02D0", "e">>) /\ Conjugated(<<"U+884C", "U+3063", "U+305F">>, <<"i", "t", "U+02D0", "a">>))   \* 行って itːe 行った itːa
    /\ (batch_pc = "returned" /\ InBatch(<<"U+3044", "U+304F">>, <<"i", "k", "U+026F">>))   \* いく ikɯ
       => (Conjugated(<<"U+3044", "U+3063", "U+3066">>, <<"i", "t", "U+02D0", "e">>) /\ Conjugated(<<"U+3044", "U+3063", "U+305F">>, <<"i", "t", "U+02D0", "a">>))   \* いって itːe いった itːa

----------------------------------------------------------------------------
(* C10 *)

\* C10 (as claimed): from the godan く-column verb 書く→kakɯ the pass
\* generates 書いた→kaita and 書いて→kaite.
C10_GodanKuTeTa ==
    (batch_pc = "returned" /\ InBatch(<<"U+66F8", "U+304F">>, <<"k", "a", "k", "U+026F">>))   \* 書く kakɯ
    => (Conjugated(<<"U+66F8", "U+3044", "U+305F">>, <<"k", "a", "i", "t", "a">>) /\ Conjugated(<<"U+66F8", "U+3044", "U+3066">>, <<"k", "a", "i", "t", "e">>))   \* 書いた 書いて

----------------------------------------------------------------------------
(* C11 *)

\* the entries of the batch that detect_verb_type tags verb_type and whose
\* phoneme ends with tail
CompoundEntries(verb_type, tail) ==
    {n \in 1..Len(entries_batch) :
        /\ detect_verb_type(entries_batch[n][1], entries_batch[n][2]) = Some(verb_type)
        /\ EndsWith(entries_batch[n][2], tail)}

\* C11 (as claimed): for a suru_compound entry X+する with phoneme P+sɯɾɯ
\* the forms are built on the prefix P (X+した→P+ɕita), and for a
\* kuru_compound entry X+くる or X+来る with phoneme P+kɯɾɯ on the prefix P
\* (X+きた→P+kita); no character of the irregular tail stays in the prefix.
C11_CompoundPrefix ==
    batch_pc = "returned" =>
        /\ \A n \in CompoundEntries(<<"s", "u", "r", "u", "_", "c", "o", "m", "p", "o", "u", "n", "d">>, <<"s", "U+026F", "U+027E", "U+026F">>) :   \* sɯɾɯ
              Conjugated(DropLast(entries_batch[n][1], 2) \o <<"U+3057", "U+305F">>,   \* した
                         DropLast(entries_batch[n][2], 4) \o <<"U+0255", "i", "t", "a">>)   \* ɕita
        /\ \A n \in CompoundEntries(<<"k", "u", "r", "u", "_", "c", "o", "m", "p", "o", "u", "n", "d">>, <<"k", "U+026F", "U+027E", "U+026F">>) :   \* kɯɾɯ
              Conjugated(DropLast(entries_batch[n][1], 2) \o <<"U+304D", "U+305F">>,   \* きた
                         DropLast(entries_batch[n][2], 4) \o <<"k", "i", "t", "a">>)

----------------------------------------------------------------------------
(* C12 *)

\* the word is decided by a rule that precedes the る rules: an irregular,
\* ある, 行く/いく, or a する/来る/くる compound
EarlierRule(word) ==
    \/ word \in {<<"U+3059", "U+308B">>, <<"U+6765", "U+308B">>, <<"U+304F", "U+308B">>, <<"U+3042", "U+308B">>, <<"U+884C", "U+304F">>, <<"U+3044", "U+304F">>}   \* する 来る くる ある 行く いく
    \/ (Len(word) > 2 /\ (EndsWith(word, <<"U+3059", "U+308B">>) \/ EndsWith(word, <<"U+6765", "U+308B">>) \/ EndsWith(word, <<"U+304F", "U+308B">>)))   \* する 来る くる

\* the class the ichidan/godan decision gives the entry
DecidedClass(word, phoneme) ==
    IF ~EndsWith(word, <<"U+308B">>) THEN None   \* る
    ELSE IF word \in GODAN_EXCEPTIONS THEN Some(<<"g", "o", "d", "a", "n", "_", "r", "u">>)
    ELSE IF /\ EndsWith(phoneme, <<"U+027E", "U+026F">>)   \* ɾɯ
            /\ Len(phoneme) >= 3
            /\ phoneme[Len(phoneme) - 2] \in {"i", "e"}
         THEN Some(<<"i", "c", "h", "i", "d", "a", "n">>)
    ELSE Some(<<"g", "o", "d", "a", "n", "_", "r", "u">>)

\* one entry of the batch, not decided by an earlier rule, is classified as
\* the decision says, and the pass treats it so: a non-verb is not counted
\* and an ichidan stem takes ない where a godan stem takes らない
C12_Step ==
    (/\ batch_pc = "batch"
     /\ batch_pos < Len(entries_batch)
     /\ ~EarlierRule(entries_batch[batch_pos + 1][1]))
    => LET word == entries_batch[batch_pos + 1][1]
           phoneme == entries_batch[batch_pos + 1][2]
           class == DecidedClass(word, phoneme)
       IN  /\ detect_verb_type(word, phoneme) = class
           /\ batch_verb_count' = batch_verb_count + (IF class = None THEN 0 ELSE 1)
           /\ class = None =>
                 batch_conjugations' = batch_conjugations
           /\ class = Some(<<"i", "c", "h", "i", "d", "a", "n">>) =>
                 /\ (DropLast(word, 1) \o <<"U+306A", "U+3044">>) \in DOMAIN batch_conjugations'   \* ない
                 /\ batch_conjugations'[DropLast(word, 1) \o <<"U+306A", "U+3044">>] = DropLast(phoneme, 2) \o <<"n", "a", "i">>   \* ない
           /\ class = Some(<<"g", "o", "d", "a", "n", "_", "r", "u">>) =>
                 (DropLast(word, 1) \o <<"U+3089", "U+306A", "U+3044">>) \in DOMAIN batch_conjugations'   \* らない

\* C12: a text ending in る that no earlier rule decides is godan when it is
\* in the godan-exception set, else ichidan exactly when the phoneme ends
\* with ɾɯ preceded by i or e, else godan; a text not ending in る that no
\* earlier rule decides is not a verb.
C12_IchidanGodanDecision == [][C12_Step]_vars

\* the pass has just conjugated a godan exception whose phonetic stem ends
\* in i (切る→kiɾɯ), as a godan verb
C12_Witness ==
    /\ batch_pc = "batch"
    /\ batch_pos >= 1
    /\ entries_batch[batch_pos] = <<<<"U+5207", "U+308B">>, <<"k", "i", "U+027E", "U+026F">>>>   \* 切る kiɾɯ
    /\ <<"U+5207", "U+3089", "U+306A", "U+3044">> \in DOMAIN batch_conjugations   \* 切らない
    /\ <<"U+5207", "U+306A", "U+3044">> \notin DOMAIN batch_conjugations   \* 切ない

----------------------------------------------------------------------------
(* C13 *)

\* the keys the conjugation engine generates from one entry (none when
\* detect_verb_type does not classify it)
GeneratedKeys(word, phoneme) ==
    LET verb_type == detect_verb_type(word, phoneme)
    IN  IF verb_type # None /\ verb_type[1] # << >>
        THEN DOMAIN generate_conjugations(word, phoneme, verb_type[1])
        ELSE {}

\* C13 (as claimed): closure.  After the pass over one verb-classifiable
\* entry, the engine run on the entry and on every form it generated
\* produces no key outside the entry and those forms.
C13_Closure ==
    (/\ batch_pc = "returned"
     /\ Len(entries_batch) = 1
     /\ batch_verb_count = 1)
    => LET keys == {entries_batch[1][1]} \cup DOMAIN batch_conjugations
       IN  /\ GeneratedKeys(entries_batch[1][1], entries_batch[1][2]) \subseteq keys
           /\ \A k \in DOMAIN batch_conjugations :
                 GeneratedKeys(k, batch_conjugations[k]) \subseteq keys

----------------------------------------------------------------------------
(* C14 *)

\* the merge of one batch result keeps every entry data holds and adds
\* generated forms under absent keys only
C14_Step ==
    (main_pc = "pool" /\ batch_pc = "returned")
    => /\ \A k \in DOMAIN data : k \in DOMAIN data' /\ data'[k] = data[k]
       /\ \A k \in (DOMAIN data') \ (DOMAIN data) :
             k \in DOMAIN batch_conjugations /\ data'[k] = batch_conjugations[k]

\* every entry the dictionary had before the pass still has its phoneme
C14_Kept ==
    main_pc \in {"pool", "merged"}
    => LET words == DOMAIN data
       IN  \A n \in 1..Len(all_entries) :
              /\ all_entries[n][1] \in words
              /\ data[all_entries[n][1]] = all_entries[n][2]

\* C14: dictionary wins.  After the results of all batches are merged every
\* key the dictionary had before the expansion maps to the phoneme it had;
\* a generated form is added only under an absent key and never overwrites
\* an entry.
C14_DictionaryWins == [][C14_Step]_vars /\ []C14_Kept

\* the pass is over; つくる generated つきた→ʦɯkkita, which collided with the
\* dictionary's own つきた→ʦɯkita and was skipped
C14_Witness ==
    /\ main_pc = "merged"
    /\ skipped_count > 0
    /\ \E n \in 1..Len(all_entries) : all_entries[n] = <<<<"U+3064", "U+304F", "U+308B">>, <<"U+02A6", "U+026F", "k", "U+026F", "U+027E", "U+026F">>>>   \* つくる ʦɯkɯɾɯ
    /\ \E n \in 1..Len(all_entries) : all_entries[n] = <<<<"U+3064", "U+304D", "U+305F">>, <<"U+02A6", "U+026F", "k", "i", "t", "a">>>>   \* つきた ʦɯkita
    /\ <<"U+3064", "U+304D", "U+305F">> \in conjugated_words   \* つきた
    /\ data[<<"U+3064", "U+304D", "U+305F">>] = <<"U+02A6", "U+026F", "k", "i", "t", "a">>   \* つきた ʦɯkita

----------------------------------------------------------------------------
(* C15 *)

\* the merged map when all entries make one batch
OneBatchMerge(entries) ==
    MergeInto(Assign(EmptyDict, entries),
              process_verb_batch(entries).batch_conjugations)

\* C15 (as claimed): determinism of the parallel build.  For a fixed input
\* dictionary the merged map is the same however the entries are divided
\* into batches and in whatever order the batches complete, so it is the
\* map the single-batch run gives.
C15_MergeDeterministic ==
    main_pc = "merged" => data = OneBatchMerge(all_entries)

----------------------------------------------------------------------------
(* C16 *)

\* the file at the path is the one build_binary_trie wrote for
\* phoneme_dict and word_set
IsBuiltFile ==
    /\ file # None
    /\ file = Some(build_binary_trie(phoneme_dict, word_set))

\* C16 (as claimed): the 8-byte root-offset field after the 16-byte header
\* holds the absolute offset at which the root node record starts: the
\* bytes from there to the end of the file are the serialized trie.
C16_RootOffset ==
    IsBuiltFile =>
        LET root_offset == FromLittleEndian(Read(file[1], 16, 8))
        IN  Slice(file[1], root_offset, Len(file[1])) =
                serialize_trie_node(BuilderTrie(phoneme_dict, word_set), << >>, root_offset)

----------------------------------------------------------------------------
(* C17 *)

\* the children of the root of the trie the file was built from
RootChildren == {k[1] : k \in (DOMAIN phoneme_dict) \cup word_set}

\* the child count a reader following the layout takes from the node record
\* at offset p: bits 1..7 of the flags byte when bit 7 is clear, else the
\* varint after it
LayoutChildCount(bytes, p) ==
    IF bytes[p + 1] < 128 THEN bytes[p + 1] \div 2
    ELSE read_varint(bytes, p + 1, 0, 0).value

\* C17 (as claimed): the flags byte of the root record (at the end of the
\* header and its offset field) has bit 0 = has_value (the root has none),
\* bit 7 set exactly when the child count follows as a varint, and a reader
\* following the layout recovers the child count.
C17_FlagsByte ==
    IsBuiltFile =>
        LET p == Len(TrieHeader(phoneme_dict, word_set))
            n == Cardinality(RootChildren)
            flags == file[1][p + 1]
        IN  /\ flags % 2 = 0
            /\ (flags >= 128) <=> (Len(NodeFlags(0, n)) > 1)
            /\ LayoutChildCount(file[1], p) = n

----------------------------------------------------------------------------
(* C18 *)

\* struct.unpack('<i', bytes): 4 bytes, two's complement
SignedLittleEndian(bytes) ==
    IF bytes[4] < 128 THEN FromLittleEndian(bytes)
    ELSE FromLittleEndian(<<bytes[1], bytes[2], bytes[3], bytes[4] - 128>>)
             - 2147483647 - 1

\* C18 (as claimed): post-order.  Every child of the root is written before
\* the root's record: the relative offset in each entry of the root's
\* children table is negative and leads to a byte offset below the record.
C18_PostOrder ==
    IsBuiltFile =>
        LET p == Len(TrieHeader(phoneme_dict, word_set))
            n == Cardinality(RootChildren)
            table == p + Len(NodeFlags(0, n))
        IN  \A k \in 1..n :
               LET entry_end == table + 7 * k
                   relative_offset ==
                       SignedLittleEndian(Slice(file[1], entry_end - 4, entry_end))
               IN  /\ relative_offset < 0
                   /\ entry_end + relative_offset < p

----------------------------------------------------------------------------
(* C19 *)

\* the major versions a reader of the dictionary file can know: the
\* loader's own layout and the current 2.0
KnownMajorVersions == {1, 2}

\* C19 (as claimed): a file whose magic is accepted but whose major version
\* no reader recognizes is rejected: try_load_binary_format returns False
\* and loads no entry.
C19_UnknownVersionRejected ==
    (/\ ret.op = "try_load"
     /\ ret.arg # None
     /\ Read(ret.arg[1], 0, 4) = MagicJPHO
     /\ Len(Read(ret.arg[1], 4, 2)) = 2
     /\ FromLittleEndian(Read(ret.arg[1], 4, 2)) \notin KnownMajorVersions)
    => /\ ret.value = FALSE
       /\ entry_count = 0

----------------------------------------------------------------------------
(* C20 *)

\* the varint at offset p goes on after five bytes
LongVarintAt(bytes, p) ==
    /\ Len(bytes) >= p + 5
    /\ \A i \in 1..5 : bytes[p + i] >= 128

\* C20 (as claimed): a file whose first varint (the length of the first
\* key, after the 12 bytes of magic, version and entry count) has a
\* continuation chain of more than five bytes is rejected: the load fails
\* and no entry is decoded.
C20_LongVarintRejected ==
    (/\ ret.op = "try_load"
     /\ ret.arg # None
     /\ Read(ret.arg[1], 0, 4) = MagicJPHO
     /\ Len(Read(ret.arg[1], 8, 4)) = 4
     /\ FromLittleEndian(Read(ret.arg[1], 8, 4)) > 0
     /\ LongVarintAt(ret.arg[1], 12))
    => /\ ret.value = FALSE
       /\ entry_count = 0

----------------------------------------------------------------------------
(* C21 *)

\* the node record at offset p as a reader following the layout takes it:
\* whether it has a value, its child count, where its children table starts
LayoutNode(bytes, p) ==
    LET flags == bytes[p + 1]
        after_count == IF flags < 128 THEN p + 1
                       ELSE read_varint(bytes, p + 1, 0, 0).pos
        len == IF flags % 2 = 1 THEN read_varint(bytes, after_count, 0, 0)
               ELSE [value |-> 0, pos |-> after_count]
    IN  [has_value |-> flags % 2 = 1,
         value |-> Slice(bytes, len.pos, len.pos + len.value),
         count |-> LayoutChildCount(bytes, p),
         table |-> len.pos + len.value]

\* the k-th entry of the children table at offset table: its code point and
\* the offset its relative offset leads to
LayoutEntry(bytes, table, k) ==
    LET entry_end == table + 7 * k
    IN  [code_point |-> FromLittleEndian(Slice(bytes, entry_end - 7, entry_end - 4)),
         relative_offset |-> SignedLittleEndian(Slice(bytes, entry_end - 4, entry_end)),
         child |-> entry_end + SignedLittleEndian(Slice(bytes, entry_end - 4, entry_end))]

\* the code points of the punctuation set the model knows
PunctuationCodes == {Ord(p[1]) : p \in {q \in PUNCTUATION_TO_REMOVE : q[1] \in CodePoints}}

\* C21 (as claimed): in the artifact main has written, no key of the
\* punctuation set carries a value, neither a phoneme nor a word marker:
\* the node a punctuation character leads to from the root has no value.
C21_NoPunctuationInArtifact ==
    (main_pc = "built" /\ file # None) =>
        LET root_node == LayoutNode(file[1], Len(TrieHeader(phoneme_dict, word_set)))
        IN  \A k \in 1..root_node.count :
               LET e == LayoutEntry(file[1], root_node.table, k)
               IN  e.code_point \in PunctuationCodes
                       => ~LayoutNode(file[1], e.child).has_value

----------------------------------------------------------------------------
(* C22 *)

\* the six two-character sequences and their ligatures
LigatureOf ==
    <<"d", "U+0291">> :> "U+02A5" @@ <<"t", "U+0255">> :> "U+02A8" @@ <<"t", "s">> :> "U+02A6" @@   \* dʑ ʥ tɕ ʨ ʦ
    <<"d", "z">> :> "U+02A3" @@ <<"t", "U+0283">> :> "U+02A7" @@ <<"d", "U+0292">> :> "U+02A4"   \* ʣ tʃ ʧ dʒ ʤ

\* s with every occurrence of one of the six sequences replaced by its
\* ligature in one pass from left to right, everything else kept
RECURSIVE Ligatured(_)
Ligatured(s) ==
    IF Len(s) < 2 THEN s
    ELSE IF SubSeq(s, 1, 2) \in DOMAIN LigatureOf
    THEN <<LigatureOf[SubSeq(s, 1, 2)]>> \o Ligatured(SubSeq(s, 3, Len(s)))
    ELSE <<Head(s)>> \o Ligatured(Tail(s))

\* s contains one of the six sequences
HasSequence(s) ==
    \E i \in 1..(Len(s) - 1) : SubSeq(s, i, i + 1) \in DOMAIN LigatureOf

\* C22: the ligature step of main replaces, in every value of the
\* dictionary, every occurrence of the six sequences by its ligature and
\* changes nothing else; the converted value holds none of the six
\* sequences and convert_to_ligatures leaves it as it is; from the step on
\* no value of the dictionary holds any of the six sequences.
C22_Step ==
    /\ (main_pc = "punct" /\ main_pc' = "ligatures") =>
          /\ DOMAIN data' = DOMAIN data
          /\ \A k \in DOMAIN data :
                /\ data'[k] = Ligatured(data[k])
                /\ ~HasSequence(data'[k])
                /\ convert_to_ligatures(data'[k]) = data'[k]
    /\ main_pc' \in {"ligatures", "built"} =>
          \A k \in DOMAIN data' : ~HasSequence(data'[k])

C22_LigatureNormalization == [][C22_Step]_vars

\* the step has converted a value in which two of the sequences stood
C22_Witness ==
    /\ main_pc = "ligatures"
    /\ converted_count > 0
    /\ \E k \in DOMAIN data :
          /\ Len(data[k]) = 2
          /\ "U+02A5" = data[k][1]   \* ʥ
          /\ "U+02A6" = data[k][2]   \* ʦ

----------------------------------------------------------------------------
(* C23 *)

\* C23 (as claimed): every match record convert_detailed_with_segmentation
\* returns has as start index the code-point index of the input at which
\* its original span stands: input[start_index : start_index + len(original)]
\* is the original.
C23_StartIndex ==
    (pc = "returned" /\ ret.op = "cdws") =>
        \A k \in 1..Len(ret.value.matches) :
           LET m == ret.value.matches[k]
           IN  Slice(ret.arg, m.start_index, m.start_index + Len(m.original))
                   = m.original

----------------------------------------------------------------------------
(* C24 *)

\* the words of convert_with_segmentation converted one by one
ConvertWords(trie, words) == [k \in 1..Len(words) |-> convert(trie, words[k])]

\* the loop of convert_detailed_with_segmentation over the segments from
\* the k-th on
RECURSIVE SegmentsLoop(_, _, _, _, _)
SegmentsLoop(trie, strie, segs, k, acc) ==
    IF k > Len(segs) THEN acc
    ELSE SegmentsLoop(trie, strie, segs, k + 1, SegmentBody(trie, strie, segs[k], acc))

\* what a query returns on the tries as they stand, run alone
QueryAlone(op, trie, strie, t) ==
    CASE op = "convert" -> convert(trie, t)
      [] op = "convert_detailed" -> convert_detailed(trie, t)
      [] op = "segment" -> segment(strie, t)
      [] op = "cws" -> Join(ConvertWords(trie, segment(strie, t)), <<" ">>)
      [] op = "cdws" ->
            LET r == SegmentsLoop(trie, strie, parse_furigana_hints(t), 1,
                         [phoneme_parts |-> << >>, all_matches |-> << >>,
                          all_unmatched |-> << >>, byte_offset |-> 0])
            IN  [phonemes |-> Join(r.phoneme_parts, <<" ">>),
                 matches |-> r.all_matches,
                 unmatched |-> r.all_unmatched]

\* the loops of the five queries
QueryLoops == {"convert", "convert_detailed", "segment", "cws", "cdws"}

\* C24: queries are read-only.  Once the dictionary is loaded, no step of
\* convert, convert_detailed, segment, convert_with_segmentation or
\* convert_detailed_with_segmentation changes the trie of the converter or
\* of the segmenter or the entry and word counts, whichever caller takes
\* it and wherever the other callers' calls stand; a step of one caller's
\* call leaves the locals of every other caller's call as they are; and a
\* call that returns, however its iterations were interleaved with those
\* of the other callers' calls, returns what the same call returns on
\* that trie when it runs from its first iteration to its return with no
\* other call in between.
C24_Step ==
    /\ pc # "load" =>
          /\ root' = root
          /\ entry_count' = entry_count
          /\ seg_root' = seg_root
          /\ word_count' = word_count
    /\ running' = running => waiting' = waiting
    /\ (running' = running /\ pc # "returned" /\ pc' = "returned") =>
          ret'.value = QueryAlone(ret'.op, root', seg_root', ret'.arg)

C24_ReadOnly == [][C24_Step]_vars

\* a call of the segmenting pipeline has returned two matches from a
\* loaded dictionary of two entries while another caller's call stands in
\* the middle of its loop, its result half built
C24_Witness ==
    /\ pc = "returned"
    /\ ret.op = "cdws"
    /\ Len(ret.value.matches) > 1
    /\ entry_count = 2
    /\ \E c \in Callers \ {running} :
          /\ waiting[c].pc \in QueryLoops
          /\ waiting[c].pos > 0
          /\ waiting[c].pos < Len(waiting[c].text)
          /\ waiting[c].result # << >>

----------------------------------------------------------------------------
(* C25: the matcher is total.                                              *)

MatcherLoops == {"convert", "convert_detailed", "segment"}

\* One step of a running matcher loop: an iteration moves the cursor
\* forward and stays inside the input; past the last code point the only
\* step is the return, with a value.
C25_Step ==
    pc \in MatcherLoops =>
        /\ pos < Len(text) =>
               /\ pc' = pc
               /\ pos' > pos
               /\ pos' <= Len(text)
        /\ pos >= Len(text) =>
               /\ pc' = "returned"
               /\ ret'.op = pc
               /\ ret'.arg = text
        /\ (/\ pc = "segment"
            /\ pos < Len(text)
            /\ text[pos + 1] \notin Whitespace
            /\ LongestMatch(seg_root, text, pos).match_length = 0) =>
               /\ GrammarEnd(seg_root, text, pos) > pos
               /\ pos' = GrammarEnd(seg_root, text, pos)

\* C25: convert, convert_detailed and segment terminate with a result on
\* every input and every trie: each iteration of the outer loop (and the
\* grammar run of segment) moves the cursor strictly forward, and every
\* call that has started reaches its return.
C25_MatcherTotal ==
    /\ [][C25_Step]_vars
    /\ (pc \in MatcherLoops) ~> (pc = "returned")

\* a segment call has returned from an input of three code points that
\* made it skip whitespace, take a dictionary word and collect a grammar run
C25_Witness ==
    /\ pc = "returned"
    /\ ret.op = "segment"
    /\ ret.arg = <<"[", " ", "a">>
    /\ ret.value = << <<"[">>, <<"a">> >>
    /\ entry_count = 2

----------------------------------------------------------------------------
(* C26: convert_detailed accounts for every code point exactly once.       *)

RECURSIVE Tile(_, _, _, _, _, _)
\* Reads txt from cursor p on with the match records from the mi-th and the
\* unmatched characters from the ui-th: a record that starts at p must
\* carry txt[p..p+len) as its original and covers it, any other position
\* must be the next unmatched character. ok says that input, records and
\* characters ran out together; parts are the phonemes and characters met.
Tile(txt, matches, unmatched, p, mi, ui) ==
    IF p >= Len(txt)
    THEN [ok |-> mi > Len(matches) /\ ui > Len(unmatched), parts |-> << >>]
    ELSE IF mi <= Len(matches) /\ matches[mi].start_index = p
    THEN LET mt == matches[mi]
             n == Len(mt.original)
         IN  IF n = 0 \/ p + n > Len(txt) \/ Slice(txt, p, p + n) # mt.original
             THEN [ok |-> FALSE, parts |-> << >>]
             ELSE LET rest == Tile(txt, matches, unmatched, p + n, mi + 1, ui)
                  IN  [ok |-> rest.ok, parts |-> <<mt.phoneme>> \o rest.parts]
    ELSE IF ui <= Len(unmatched) /\ unmatched[ui] = <<txt[p + 1]>>
    THEN LET rest == Tile(txt, matches, unmatched, p + 1, mi, ui + 1)
         IN  [ok |-> rest.ok, parts |-> <<unmatched[ui]>> \o rest.parts]
    ELSE [ok |-> FALSE, parts |-> << >>]

RECURSIVE SpanLengths(_)
SpanLengths(matches) ==
    IF matches = << >> THEN 0
    ELSE Len(Head(matches).original) + SpanLengths(Tail(matches))

\* the account holds of a result for the input txt
Accounted(txt, value) ==
    LET t == Tile(txt, value.matches, value.unmatched, 0, 1, 1)
    IN  /\ t.ok
        /\ SpanLengths(value.matches) + Len(value.unmatched) = Len(txt)
        /\ value.phonemes = Join(t.parts, << >>)

\* C26: the spans of the matches and the unmatched characters of a
\* convert_detailed result, in input order, tile the input without gap or
\* overlap, their lengths add up to the input length, and the phoneme
\* string is the concatenation of the phonemes and characters in that order;
\* while the loop runs the same holds of the input read so far.
C26_Tiling ==
    /\ (pc = "returned" /\ ret.op = "convert_detailed") =>
           Accounted(ret.arg, ret.value)
    /\ pc = "convert_detailed" =>
           Accounted(SubSeq(text, 1, pos),
                     [phonemes |-> Join(result, << >>),
                      matches |-> all_matches,
                      unmatched |-> all_unmatched])

\* a convert_detailed has returned a match of two code points followed by
\* an unmatched character
C26_Witness ==
    /\ pc = "returned"
    /\ ret.op = "convert_detailed"
    /\ ret.arg = <<"a", "a", "[">>
    /\ Len(ret.value.matches) = 1
    /\ ret.value.matches[1].original = <<"a", "a">>
    /\ ret.value.unmatched = << <<"[">> >>
    /\ ret.value.phonemes = <<"x", "y", "[">>

----------------------------------------------------------------------------
(* C27: grammar runs.                                                      *)

\* a dictionary word begins at cursor q of txt
WordBeginsAt(trie, txt, q) == \E k \in KeysOf(trie) : MatchesAt(k, txt, q)

\* cursor q of txt can be part of a grammar run
GrammarPosition(trie, txt, q) ==
    /\ q < Len(txt)
    /\ txt[q + 1] \notin Whitespace
    /\ ~WordBeginsAt(trie, txt, q)

\* the code point before the cursor is whitespace or the end of the word
\* token emitted last, or the cursor is at the start
RunStartsHere ==
    \/ pos = 0
    \/ text[pos] \in Whitespace
    \/ /\ result # << >>
       /\ LET w == result[Len(result)]
          IN  /\ w \in KeysOf(seg_root)
              /\ Len(w) <= pos
              /\ Slice(text, pos - Len(w), pos) = w

\* One iteration of segment's outer loop. At a grammar position the
\* iteration appends exactly one token, text[pos : pos'], made of grammar
\* positions only, that cannot be extended to the right (end of input,
\* whitespace or the beginning of a word follows) nor to the left; any
\* other iteration appends nothing (whitespace) or a dictionary word; no
\* appended token is empty or begins with whitespace.
C27_Step ==
    (pc = "segment" /\ pos < Len(text)) =>
        /\ GrammarPosition(seg_root, text, pos) =>
               /\ pos' > pos
               /\ result' = Append(result, Slice(text, pos, pos'))
               /\ \A q \in pos..(pos' - 1) : GrammarPosition(seg_root, text, q)
               /\ ~GrammarPosition(seg_root, text, pos')
               /\ RunStartsHere
        /\ ~GrammarPosition(seg_root, text, pos) =>
               \/ result' = result /\ text[pos + 1] \in Whitespace
               \/ /\ result' = Append(result, Slice(text, pos, pos'))
                  /\ Slice(text, pos, pos') \in KeysOf(seg_root)
        /\ \A i \in 1..Len(result') :
               result'[i] # << >> /\ result'[i][1] \notin Whitespace

\* C27: segment emits every maximal run of non-whitespace code points that
\* lie outside the dictionary words it matched and at which no dictionary
\* word begins as exactly one token; such a token ends only at whitespace,
\* at the end of the input or where a dictionary word begins, holds no
\* position where a word begins, and no token is empty or begins with
\* whitespace.
C27_GrammarRuns == [][C27_Step]_vars

\* segment has returned a grammar run of two code points that ended where
\* a dictionary word began
C27_Witness ==
    /\ pc = "returned"
    /\ ret.op = "segment"
    /\ ret.arg = <<"b", "b", "a">>
    /\ ret.value = << <<"b", "b">>, <<"a">> >>

----------------------------------------------------------------------------
(* C28: the children table.                                                *)

\* the bytes of a node record before its children table
RecordHead(trie, p) ==
    NodeFlags(IF trie[p] # None THEN 1 ELSE 0, Cardinality(ChildrenOf(trie, p)))
        \o NodeValue(trie[p])

RECURSIVE SubtreeSize(_, _)
RECURSIVE SubtreeSizes(_, _, _, _, _)
\* the number of bytes the record of node p and the records below it take
SubtreeSize(trie, p) ==
    LET kids == SortedByOrd(ChildrenOf(trie, p))
    IN  Len(RecordHead(trie, p)) + 7 * Len(kids)
            + SubtreeSizes(trie, p, kids, 1, Len(kids))

SubtreeSizes(trie, p, kids, lo, hi) ==
    IF lo > hi THEN 0
    ELSE IF lo = hi THEN SubtreeSize(trie, p \o <<kids[lo]>>)
    ELSE LET mid == (lo + hi) \div 2
         IN  SubtreeSizes(trie, p, kids, lo, mid)
                 + SubtreeSizes(trie, p, kids, mid + 1, hi)

\* the k-th 7-byte entry of the table at byte offset table: its code point,
\* the byte offset after it, and the offset its relative offset leads to
TableEntry(bytes, table, k) ==
    LET entry_end == table + 7 * k
    IN  [code_point |-> FromLittleEndian(Slice(bytes, entry_end - 7, entry_end - 4)),
         entry_end |-> entry_end,
         target |-> entry_end
                      + SignedLittleEndian(Slice(bytes, entry_end - 4, entry_end))]

RECURSIVE TableHolds(_, _, _, _)
\* The record of node p starts at byte offset off.  Its table has one entry
\* for each child and no more (the first child's record begins right after
\* the last entry), in strictly ascending code point order; each entry's
\* offset, counted from the end of the entry, leads to the start of that
\* child's record, which is where the earlier records end; and the same
\* holds of every child.
TableHolds(bytes, trie, p, off) ==
    LET kids == ChildrenOf(trie, p)
        n == Cardinality(kids)
        table == off + Len(RecordHead(trie, p))
        e(k) == TableEntry(bytes, table, k)
        child(k) == CHOOSE c \in kids : Ord(c) = e(k).code_point
    IN  /\ Slice(bytes, off, table) = RecordHead(trie, p)
        /\ table + 7 * n <= Len(bytes)
        /\ {e(k).code_point : k \in 1..n} = {Ord(c) : c \in kids}
        /\ \A k \in 1..(n - 1) : e(k).code_point < e(k + 1).code_point
        /\ n > 0 => e(1).target = table + 7 * n
        /\ \A k \in 1..(n - 1) :
               e(k + 1).target = e(k).target + SubtreeSize(trie, p \o <<child(k)>>)
        /\ \A k \in 1..n : TableHolds(bytes, trie, p \o <<child(k)>>, e(k).target)

\* C28: in a file written by build_binary_trie, the children table of every
\* node record holds exactly one 7-byte entry per child, in strictly
\* ascending code point order: 3 bytes of code point, little-endian, then a
\* signed 32-bit little-endian offset that, added to the byte offset just
\* after the entry, gives the byte offset where the child's record starts.
C28_ChildrenTable ==
    IsBuiltFile =>
        TableHolds(file[1], BuilderTrie(phoneme_dict, word_set), << >>,
                   Len(TrieHeader(phoneme_dict, word_set)))

\* a file was built from a trie whose root has two children, one of them
\* with a value and a child of its own
C28_Witness ==
    /\ IsBuiltFile
    /\ phoneme_dict = [k \in {<<"a">>, <<"a", "U+3042">>} |-> <<"x", "y">>]
    /\ word_set = {<<"U+3042">>}

----------------------------------------------------------------------------
(* C29: insert is last-writer-wins and touches only its own key.           *)

RECURSIVE ReadEntries(_, _, _)
\* the first n entries of the file read from position p on, as
\* <<key, value>> pairs in file order
ReadEntries(bytes, p, n) ==
    IF n = 0 THEN << >>
    ELSE LET e == ReadEntry(bytes, p)
         IN  <<<<e.key, e.value>>>> \o ReadEntries(bytes, e.pos, n - 1)

\* the trie is what the inserts es[1], es[2], ... leave: every inserted key
\* carries the value of the last insert of that key, the nodes are the
\* prefixes of the inserted keys (a key of n code points is the node n
\* edges below the root) and no other node carries a value
HoldsInserts(trie, es) ==
    /\ \A i \in 1..Len(es) :
           LET last == CHOOSE j \in i..Len(es) :
                           /\ es[j][1] = es[i][1]
                           /\ \A m \in (j + 1)..Len(es) : es[m][1] # es[i][1]
           IN  /\ es[i][1] \in DOMAIN trie
               /\ trie[es[i][1]] = Some(es[last][2])
    /\ DOMAIN trie = {<< >>} \cup UNION {Prefixes(es[i][1]) : i \in 1..Len(es)}
    /\ \A p \in DOMAIN trie :
           (\A i \in 1..Len(es) : es[i][1] # p) => trie[p] = None

\* the entries the running or finished load has inserted so far
InsertedSoFar ==
    LET count == FromLittleEndian(Read(file[1], 8, 4))
    IN  ReadEntries(file[1], 12, IF pc = "try_load" THEN count - to_read ELSE count)

RECURSIVE SetToSeq(_)
SetToSeq(S) ==
    IF S = {} THEN << >>
    ELSE LET x == CHOOSE y \in S : TRUE IN <<x>> \o SetToSeq(S \ {x})

\* the inserts build_binary_trie makes: the phoneme entries, then the
\* words that are not phoneme entries, with the empty value
BuilderInserts(dict, words) ==
    SetToSeq({<<k, dict[k]>> : k \in DOMAIN dict})
        \o SetToSeq({<<w, << >> >> : w \in words \ DOMAIN dict})

\* C29: after any sequence of inserts, each inserted key maps to the value
\* of the most recent insert for that key, every other key keeps its value,
\* a key of n code points lies exactly n edges below the root, and nothing
\* else is added, removed or changed: for the loader's trie after each entry
\* it has read, and for the trie the builder serializes.
C29_LastWriterWins ==
    /\ (\/ pc = "try_load"
        \/ pc = "returned" /\ ret.op = "try_load" /\ ret.value = TRUE) =>
           /\ HoldsInserts(root, InsertedSoFar)
           /\ entry_count = Len(InsertedSoFar)
    /\ HoldsInserts(BuilderTrie(phoneme_dict, word_set),
                    BuilderInserts(phoneme_dict, word_set))

\* the loader has read a file that sets 'a', then 'aa', then 'a' again with
\* another value
C29_Witness ==
    /\ pc = "returned"
    /\ ret.op = "try_load"
    /\ ret.value = TRUE
    /\ InsertedSoFar = << <<<<"a">>, <<"x", "y">> >>,
                          <<<<"a", "a">>, <<"x", "y">> >>,
                          <<<<"a">>, << >> >> >>
    /\ root[<<"a">>] = Some(<< >>)
    /\ root[<<"a", "a">>] = Some(<<"x", "y">>)

----------------------------------------------------------------------------
(* C30: a failed binary load.                                              *)

\* C30 (as claimed): whenever try_load_binary_format has returned False,
\* the converter's trie and entry_count are what they were before the call
\* (the call is made on a new converter: the empty trie and 0).
C30_FailedLoadUnchanged ==
    (pc = "returned" /\ ret.op = "try_load" /\ ret.value = FALSE) =>
        (root = EmptyTrie /\ entry_count = 0)

====
